---- MODULE Spec2Model ----
(***************************************************************************)
(* Session-transcript diagnostic extractors (Claude, Pi, Codex).           *)
(*                                                                         *)
(* Texts are sequences of one-character strings, so that split, strip,     *)
(* slicing and the truncation markers are computed as the scripts compute  *)
(* them.  Tool names are texts too; correlation identifiers are opaque     *)
(* strings ("" is the absent / empty identifier).                          *)
(***************************************************************************)
EXTENDS Integers, Sequences, FiniteSets, TLC

VARIABLES
    extractor,  \* which script runs: "claude" | "pi" | "codex"
    pc,         \* "idle" | "loop" | "returned" | "raised"
    pending,    \* pending_tools: identifier -> tool name
    output,     \* the output list of process_session
    consumed,   \* history: the records this invocation has processed
    leftover,   \* history: identifiers pending when the previous invocation ended
    total,      \* history: records processed over all invocations
    tText,      \* _truncate: argument text
    tL,         \* _truncate: argument max_lines
    tC,         \* _truncate: argument max_chars
    tOut,       \* _truncate: returned text
    tPc,        \* "idle" | "call" | "ret"
    fIn,        \* a helper called on its own: its arguments
    fOut,       \* the value the helper returned
    fPc         \* "idle" | "call" | "ret"

vars == <<extractor, pc, pending, output, consumed, leftover, total,
          tText, tL, tC, tOut, tPc, fIn, fOut, fPc>>

sessionVars == <<extractor, pc, pending, output, consumed, leftover, total>>

truncVars == <<tText, tL, tC, tOut, tPc>>

helperVars == <<fIn, fOut, fPc>>

(***************************************************************************)
(* Bounds of the model.                                                    *)
(***************************************************************************)
MaxRecords == 3

MaxTextLen == 4

MaxLimitLines == 3

MaxLimitChars == 4

(***************************************************************************)
(* Program constants.                                                      *)
(***************************************************************************)
MAX_OUTPUT_LINES == 8

MAX_OUTPUT_CHARS == 500

(***************************************************************************)
(* Text primitives of the Python runtime the scripts rely on.              *)
(***************************************************************************)
NL == "\n"

Min(a, b) == IF a < b THEN a ELSE b

Max(a, b) == IF a > b THEN a ELSE b

\* s[:n] for n >= 0
Take(s, n) == SubSeq(s, 1, Min(n, Len(s)))

\* s[n:] for n >= 0
Drop(s, n) == SubSeq(s, Min(n, Len(s)) + 1, Len(s))

\* s.startswith(p)
StartsWith(s, p) == Len(p) <= Len(s) /\ SubSeq(s, 1, Len(p)) = p

\* s.endswith(p)
EndsWith(s, p) == Len(p) <= Len(s) /\ SubSeq(s, Len(s) - Len(p) + 1, Len(s)) = p

\* position of the first newline of s, or 0
RECURSIVE FirstNL(_, _)
FirstNL(s, i) ==
    IF i > Len(s) THEN 0
    ELSE IF s[i] = NL THEN i
    ELSE FirstNL(s, i + 1)

\* s.split("\n"): always at least one piece
RECURSIVE Split(_)
Split(s) ==
    LET k == FirstNL(s, 1)
    IN IF k = 0 THEN <<s>>
       ELSE <<SubSeq(s, 1, k - 1)>> \o Split(SubSeq(s, k + 1, Len(s)))

\* sep.join(parts)
RECURSIVE Join(_, _)
Join(parts, sep) ==
    IF Len(parts) = 0 THEN <<>>
    ELSE IF Len(parts) = 1 THEN parts[1]
    ELSE parts[1] \o sep \o Join(Tail(parts), sep)

IsSpace(c) == c \in {" ", NL, "\t"}

RECURSIVE LStrip(_)
LStrip(s) ==
    IF Len(s) > 0 /\ IsSpace(s[1]) THEN LStrip(Tail(s)) ELSE s

RECURSIVE RStrip(_)
RStrip(s) ==
    IF Len(s) > 0 /\ IsSpace(s[Len(s)]) THEN RStrip(SubSeq(s, 1, Len(s) - 1)) ELSE s

\* s.strip()
Strip(s) == RStrip(LStrip(s))

Digit(d) == <<"0", "1", "2", "3", "4", "5", "6", "7", "8", "9">>[d + 1]

\* str(n) for n >= 0
RECURSIVE Dec(_)
Dec(n) ==
    IF n < 10 THEN <<Digit(n)>>
    ELSE Dec(n \div 10) \o <<Digit(n % 10)>>

(***************************************************************************)
(* _truncate                                                               *)
(***************************************************************************)
\* f"\n  ... ({n} more lines)"
LineMarker(n) ==
    <<NL, " ", " ", ".", ".", ".", " ", "(">> \o Dec(n)
        \o <<" ", "m", "o", "r", "e", " ", "l", "i", "n", "e", "s", ")">>

\* f"... ({n} more chars)"
CharMarker(n) ==
    <<".", ".", ".", " ", "(">> \o Dec(n)
        \o <<" ", "m", "o", "r", "e", " ", "c", "h", "a", "r", "s", ")">>

\* the line cut of _truncate
CutLines(text, max_lines) ==
    LET lines == Split(text)
    IN IF Len(lines) > max_lines
       THEN Join(Take(lines, max_lines), <<NL>>) \o LineMarker(Len(lines) - max_lines)
       ELSE text

\* the character cut of _truncate
CutChars(text, max_chars) ==
    IF Len(text) > max_chars
    THEN Take(text, max_chars) \o CharMarker(Len(text) - max_chars)
    ELSE text

TruncateCharsFirst(text, max_lines, max_chars) ==
    IF text = <<>> THEN <<>>
    ELSE CutLines(CutChars(text, max_chars), max_lines)

TruncateAlwaysMarks(text, max_lines, max_chars) ==
    IF text = <<>> THEN <<>>
    ELSE LET lines == Split(text)
             t1 == IF Len(lines) >= max_lines
                   THEN Join(Take(lines, max_lines), <<NL>>)
                            \o LineMarker(Len(lines) - max_lines)
                   ELSE text
         IN CutChars(t1, max_chars)

Truncate(text, max_lines, max_chars) ==
    IF text = <<>> THEN <<>>
    ELSE CutChars(CutLines(text, max_lines), max_chars)

(***************************************************************************)
(* Calls of _truncate on bounded inputs.                                   *)
(***************************************************************************)
TextChars == {"a", NL}

RECURSIVE TextsOfLen(_)
TextsOfLen(n) ==
    IF n = 0 THEN {<<>>}
    ELSE {Append(t, c) : t \in TextsOfLen(n - 1), c \in TextChars}

Texts == UNION {TextsOfLen(n) : n \in 0..MaxTextLen}

TruncIdle ==
    /\ tText = <<>>
    /\ tL = 0
    /\ tC = 0
    /\ tOut = <<>>
    /\ tPc = "idle"

HelperIdle ==
    /\ fIn = <<>>
    /\ fOut = <<>>
    /\ fPc = "idle"

SessionIdle ==
    /\ extractor = "claude"
    /\ pc = "idle"
    /\ pending = [k \in {} |-> <<>>]
    /\ output = <<>>
    /\ consumed = <<>>
    /\ leftover = {}
    /\ total = 0

TruncInit ==
    /\ SessionIdle
    /\ HelperIdle
    /\ tText \in Texts
    /\ tL \in (0..MaxLimitLines) \cup {MAX_OUTPUT_LINES}
    /\ tC \in (0..MaxLimitChars) \cup {MAX_OUTPUT_CHARS}
    /\ tOut = <<>>
    /\ tPc = "call"

TruncateCall ==
    /\ tPc = "call"
    /\ tOut' = Truncate(tText, tL, tC)
    /\ tPc' = "ret"
    /\ UNCHANGED <<tText, tL, tC>>
    /\ UNCHANGED sessionVars
    /\ UNCHANGED helperVars

TruncNext == TruncateCall

SpecTruncate == TruncInit /\ [][TruncNext]_vars

(***************************************************************************)
(* Claims about _truncate (checked under SpecTruncate).                    *)
(***************************************************************************)
LineCount(t) == Len(Split(t))

\* the line cut fired and the character cut fired on its result
BothCutsFired ==
    /\ tText # <<>>
    /\ LineCount(tText) > tL
    /\ Len(CutLines(tText, tL)) > tC

\* the result is within max_chars, or is max_chars characters plus the marker
CharBound ==
    \/ Len(tOut) <= tC
    \/ \E n \in 1..(Len(tText) + Len(LineMarker(Len(tText)))) :
          /\ EndsWith(tOut, CharMarker(n))
          /\ Len(tOut) = tC + Len(CharMarker(n))

\* when both limits fire, the character cut is applied to the line-cut text
LineCutFirst ==
    BothCutsFired =>
        tOut = Take(CutLines(tText, tL), tC)
                   \o CharMarker(Len(CutLines(tText, tL)) - tC)

\* C9 as stated: for every text and all limits L >= 0, C >= 0, the result of
\* _truncate has at most L+1 lines and at most C characters plus the
\* character-count marker, the line cut being applied before the character cut.
C9_AsStated ==
    tPc = "ret" =>
        /\ LineCount(tOut) <= tL + 1
        /\ CharBound
        /\ LineCutFirst

\* C9 amended: the result of _truncate has at most max(L,1)+1 lines (L+1 lines
\* whenever L >= 1; with L = 0 the marker still follows an empty first line)
\* and at most C characters plus the character-count marker, the line cut
\* being applied before the character cut.
C9_TruncateBounds ==
    tPc = "ret" =>
        /\ LineCount(tOut) <= Max(tL, 1) + 1
        /\ CharBound
        /\ LineCutFirst

C9_Witness ==
    /\ tPc = "ret"
    /\ tL >= 1
    /\ BothCutsFired
    /\ LineCount(tOut) = tL + 1
    /\ Len(tOut) > tC

\* C10: _truncate returns a text within both limits unchanged, with no marker,
\* and returns the empty text for the empty text.
C10_TruncateIdentity ==
    tPc = "ret" =>
        /\ (LineCount(tText) <= tL /\ Len(tText) <= tC) => tOut = tText
        /\ tText = <<>> => tOut = <<>>

C10_Witness ==
    /\ tPc = "ret"
    /\ LineCount(tText) = tL
    /\ tL >= 2
    /\ Len(tText) = tC
    /\ tOut = tText

(***************************************************************************)
(* Decoded JSON values.  A value the code probes for its type carries a    *)
(* tag: "str" (s is the text), "num" (s is str(value)), "absent".          *)
(***************************************************************************)
Str(s) == [t |-> "str", s |-> s]

Num(s) == [t |-> "num", s |-> s]

Absent == [t |-> "absent", s |-> <<>>]

\* str(v) of a present value
PyStr(v) == v.s

\* v or default, for a string-valued field (absent and "" are both falsy)
OrElse(v, default) == IF v.t = "absent" \/ v.s = <<>> THEN default ELSE v.s

\* d.get(key, default) for a string-valued field
GetOr(v, default) == IF v.t = "absent" THEN default ELSE v.s

\* the generic placeholder name
PLACEHOLDER == <<"t", "o", "o", "l">>

CMD == <<"c", "m", "d">>

UNKNOWN == <<"u", "n", "k", "n", "o", "w", "n">>

NO_CONTENT == <<"(", "n", "o", " ", "c", "o", "n", "t", "e", "n", "t", ")">>

(***************************************************************************)
(* _format_tool_result.  An output entry is a record: tag ("USER", "A",    *)
(* "TOOL", "COMPACT"), for a TOOL entry the name between the brackets, ok  *)
(* (the status glyph) and text (what follows the glyph); for the other     *)
(* tags text is the whole string.  rec and frag are history: the position  *)
(* of the record, and of the fragment in it, that triggered the entry.     *)
(***************************************************************************)
RECURSIVE IndentAll(_)
IndentAll(lines) ==
    IF Len(lines) = 0 THEN <<>>
    ELSE <<<<" ", " ">> \o lines[1]>> \o IndentAll(Tail(lines))

FormatToolResult(name, is_error, content) ==
    IF content = <<>> \/ content = NO_CONTENT
    THEN [tag |-> "TOOL", name |-> name, ok |-> ~is_error, text |-> <<>>]
    ELSE LET truncated == Truncate(content, MAX_OUTPUT_LINES, MAX_OUTPUT_CHARS)
             lines == Split(truncated)
         IN IF Len(lines) > 1
            THEN [tag |-> "TOOL", name |-> name, ok |-> ~is_error,
                  text |-> <<" ">> \o lines[1] \o <<NL>>
                               \o Join(IndentAll(Tail(lines)), <<NL>>)]
            ELSE [tag |-> "TOOL", name |-> name, ok |-> ~is_error,
                  text |-> <<" ">> \o truncated]

\* an entry that is one formatted string
Line(tag, text) == [tag |-> tag, name |-> <<>>, ok |-> TRUE, text |-> text]

\* the entry with its history fields
From(entry, rec, frag) ==
    [tag |-> entry.tag, name |-> entry.name, ok |-> entry.ok, text |-> entry.text,
     rec |-> rec, frag |-> frag]

EmitFirst(out, entry) == <<entry>> \o out

\* output.append(entry)
Emit(out, entry) == Append(out, entry)

(***************************************************************************)
(* The pending-call table: a function from identifiers to tool names.      *)
(***************************************************************************)
EmptyTable == [k \in {} |-> <<>>]

\* an assignment that keeps the entry an identifier already has
PutKeepFirst(table, id, name) ==
    [k \in DOMAIN table \cup {id} |-> IF k \in DOMAIN table THEN table[k] ELSE name]

\* pending_tools[id] = name
Put(table, id, name) ==
    [k \in DOMAIN table \cup {id} |-> IF k = id THEN name ELSE table[k]]

WithoutNothing(table, id) == table

WithoutAll(table, id) == EmptyTable

\* the table after pending_tools.pop(id, ...)
Without(table, id) == [k \in DOMAIN table \ {id} |-> table[k]]

(***************************************************************************)
(* Substring search and the regular expressions of the Claude script.      *)
(***************************************************************************)
\* position of the first occurrence of p in s at or after i, or 0
RECURSIVE Find(_, _, _)
Find(s, p, i) ==
    IF i + Len(p) - 1 > Len(s) THEN 0
    ELSE IF SubSeq(s, i, i + Len(p) - 1) = p THEN i
    ELSE Find(s, p, i + 1)

\* p in s
Contains(s, p) == Find(s, p, 1) # 0

\* the first position at or after i whose character is c, or Len(s)+1
RECURSIVE RunEnd(_, _, _)
RunEnd(s, c, i) ==
    IF i > Len(s) \/ s[i] = c THEN i ELSE RunEnd(s, c, i + 1)

\* re.search(open ([^<]{min,}) close, s) from position i on: the leftmost
\* match as [found, start, stop, inner], stop being the last matched position
RECURSIVE SearchWrapped(_, _, _, _, _)
SearchWrapped(s, open, close, min, i) ==
    LET k == Find(s, open, i)
        b == k + Len(open)
        e == RunEnd(s, "<", b)
    IN IF k = 0
       THEN [found |-> FALSE, start |-> 0, stop |-> 0, inner |-> <<>>]
       ELSE IF e - b >= min /\ e + Len(close) - 1 <= Len(s)
                           /\ SubSeq(s, e, e + Len(close) - 1) = close
            THEN [found |-> TRUE, start |-> k, stop |-> e + Len(close) - 1,
                  inner |-> SubSeq(s, b, e - 1)]
            ELSE SearchWrapped(s, open, close, min, k + 1)

STDOUT_OPEN == <<"<", "l", "o", "c", "a", "l", "-", "c", "o", "m", "m", "a", "n", "d", "-", "s", "t", "d", "o", "u", "t", ">">>

STDOUT_CLOSE == <<"<", "/", "l", "o", "c", "a", "l", "-", "c", "o", "m", "m", "a", "n", "d", "-", "s", "t", "d", "o", "u", "t", ">">>

NAME_OPEN == <<"<", "c", "o", "m", "m", "a", "n", "d", "-", "n", "a", "m", "e", ">">>

NAME_CLOSE == <<"<", "/", "c", "o", "m", "m", "a", "n", "d", "-", "n", "a", "m", "e", ">">>

MESSAGE_OPEN == <<"<", "c", "o", "m", "m", "a", "n", "d", "-", "m", "e", "s", "s", "a", "g", "e", ">">>

MESSAGE_CLOSE == <<"<", "/", "c", "o", "m", "m", "a", "n", "d", "-", "m", "e", "s", "s", "a", "g", "e", ">">>

ARGS_OPEN == <<"<", "c", "o", "m", "m", "a", "n", "d", "-", "a", "r", "g", "s", ">">>

ARGS_CLOSE == <<"<", "/", "c", "o", "m", "m", "a", "n", "d", "-", "a", "r", "g", "s", ">">>

\* re.search(r'<command-name>([^<]+)</command-name>', s)
SearchCommandName(s) == SearchWrapped(s, NAME_OPEN, NAME_CLOSE, 1, 1)

\* re.sub(r'<command-name>([^<]+)</command-name>', r'[\1]', s)
RECURSIVE SubCommandName(_)
SubCommandName(s) ==
    LET m == SearchCommandName(s)
    IN IF ~m.found THEN s
       ELSE SubSeq(s, 1, m.start - 1) \o <<"[">> \o m.inner \o <<"]">>
                \o SubCommandName(SubSeq(s, m.stop + 1, Len(s)))

\* re.sub(open [^<]* close, '', s)
RECURSIVE SubWrapped(_, _, _)
SubWrapped(s, open, close) ==
    LET m == SearchWrapped(s, open, close, 0, 1)
    IN IF ~m.found THEN s
       ELSE SubSeq(s, 1, m.start - 1)
                \o SubWrapped(SubSeq(s, m.stop + 1, Len(s)), open, close)

\* re.sub(r'<[^>]+>', '', s) from position i on
RECURSIVE SubTags(_, _)
SubTags(s, i) ==
    LET k == RunEnd(s, "<", i)
        e == RunEnd(s, ">", k + 1)
    IN IF k > Len(s) THEN s
       ELSE IF e <= Len(s) /\ e - k >= 2
            THEN SubTags(SubSeq(s, 1, k - 1) \o SubSeq(s, e + 1, Len(s)), k)
            ELSE SubTags(s, k + 1)

CleanXmlContent(content) ==
    IF content = <<>> THEN content
    ELSE LET m == SearchWrapped(content, STDOUT_OPEN, STDOUT_CLOSE, 0, 1)
         IN IF m.found THEN Strip(m.inner)
            ELSE Strip(SubTags(SubWrapped(SubWrapped(SubCommandName(content),
                                                     MESSAGE_OPEN, MESSAGE_CLOSE),
                                          ARGS_OPEN, ARGS_CLOSE), 1))

(***************************************************************************)
(* _format_tool_call.  The argument mapping is the sequence of its         *)
(* key/value pairs in JSON order, each value tagged.  The result is        *)
(* [raised, line]: raised when the Python code raises TypeError.           *)
(***************************************************************************)
Arg(k, v) == [k |-> k, v |-> v]

\* key in args
Has(args, k) == \E i \in 1..Len(args) : args[i].k = k

\* args[key]
Get(args, k) == args[CHOOSE i \in 1..Len(args) : args[i].k = k].v

\* the text of a key, as json.dumps writes it
KeyText(k) ==
    CASE k = "file_path" -> <<"f", "i", "l", "e", "_", "p", "a", "t", "h">>
      [] k = "path" -> <<"p", "a", "t", "h">>
      [] k = "command" -> <<"c", "o", "m", "m", "a", "n", "d">>
      [] k = "cmd" -> <<"c", "m", "d">>
      [] k = "old_str" -> <<"o", "l", "d", "_", "s", "t", "r">>
      [] k = "new_str" -> <<"n", "e", "w", "_", "s", "t", "r">>
      [] k = "search" -> <<"s", "e", "a", "r", "c", "h">>
      [] k = "replace" -> <<"r", "e", "p", "l", "a", "c", "e">>
      [] k = "oldText" -> <<"o", "l", "d", "T", "e", "x", "t">>
      [] k = "newText" -> <<"n", "e", "w", "T", "e", "x", "t">>
      [] k = "pattern" -> <<"p", "a", "t", "t", "e", "r", "n">>
      [] k = "regex" -> <<"r", "e", "g", "e", "x">>
      [] k = "query" -> <<"q", "u", "e", "r", "y">>
      [] k = "content" -> <<"c", "o", "n", "t", "e", "n", "t">>
      [] OTHER -> <<"l", "i", "m", "i", "t">>

\* the one character U+2192
ARROW == "->"

\* the one character U+0060
BACKQUOTE == "bq"

\* the one character U+005C
BACKSLASH == "bs"

\* s with each newline replaced by backslash, n
RECURSIVE EscapeNL(_)
EscapeNL(s) ==
    IF Len(s) = 0 THEN <<>>
    ELSE (IF s[1] = NL THEN <<BACKSLASH, "n">> ELSE <<s[1]>>) \o EscapeNL(Tail(s))

\* the body of a JSON string literal
RECURSIVE JsonEscape(_)
JsonEscape(s) ==
    IF Len(s) = 0 THEN <<>>
    ELSE (CASE s[1] = NL -> <<BACKSLASH, "n">>
            [] s[1] = "\"" -> <<BACKSLASH, "\"">>
            [] s[1] = BACKSLASH -> <<BACKSLASH, BACKSLASH>>
            [] OTHER -> <<s[1]>>) \o JsonEscape(Tail(s))

JsonValue(v) ==
    IF v.t = "str" THEN <<"\"">> \o JsonEscape(v.s) \o <<"\"">> ELSE v.s

RECURSIVE JsonPairs(_)
JsonPairs(args) ==
    IF Len(args) = 0 THEN <<>>
    ELSE <<<<"\"">> \o KeyText(args[1].k) \o <<"\"", ":", " ">> \o JsonValue(args[1].v)>>
             \o JsonPairs(Tail(args))

\* json.dumps(args, ensure_ascii=False)
JsonDumps(args) == <<"{">> \o Join(JsonPairs(args), <<",", " ">>) \o <<"}">>

\* s if len(s) <= limit, else s[:limit-3] and three dots
Cap(s, limit) ==
    IF Len(s) > limit THEN Take(s, limit - 3) \o <<".", ".", ".">> ELSE s

\* str(v)[:40], three dots appended when len(v) > 40, newlines escaped
Side(v) ==
    EscapeNL(Take(PyStr(v), 40) \o (IF Len(v.s) > 40 THEN <<".", ".", ".">> ELSE <<>>))

\* the before/after pair: old and new in double quotes around the arrow
PairPart(old, new) ==
    <<"\"">> \o old \o <<"\"", " ", ARROW, " ", "\"">> \o new \o <<"\"">>

\* the command, capped to 80 characters, between backquotes
CommandPart(cmd) == <<BACKQUOTE>> \o Cap(cmd, 80) \o <<BACKQUOTE>>

\* label=value, the value in double quotes
LabelPart(label, v) == label \o <<"=", "\"">> \o PyStr(v) \o <<"\"">>

\* [name] rest
CallLine(name, rest) == <<"[">> \o name \o <<"]", " ">> \o rest

Raised == [raised |-> TRUE, line |-> <<>>]

Returned(line) == [raised |-> FALSE, line |-> line]

\* the fallback rendering of the whole mapping
FallbackLine(name, args) == CallLine(name, Cap(JsonDumps(args), 60))

\* the first (old, new) pair of keys both present in args, or <<>>
RECURSIVE FirstPair(_, _)
FirstPair(args, pairs) ==
    IF Len(pairs) = 0 THEN <<>>
    ELSE IF Has(args, pairs[1][1]) /\ Has(args, pairs[1][2]) THEN pairs[1]
    ELSE FirstPair(args, Tail(pairs))

EDIT_PAIRS == <<<<"old_str", "new_str">>, <<"search", "replace">>, <<"oldText", "newText">>>>

PI_EDIT_PAIRS == <<<<"oldText", "newText">>, <<"search", "replace">>>>

\* the primary-subject value: the first of the keys present, or Absent
Subject(args, first, second) ==
    IF Has(args, first) THEN Get(args, first)
    ELSE IF Has(args, second) THEN Get(args, second)
    ELSE Absent

OptPart(present, part) == IF present THEN <<part>> ELSE <<>>

\* _format_tool_call of the Claude script
ClaudeFormatToolCall(name, args) ==
    LET subject == Subject(args, "file_path", "path")
        pair == FirstPair(args, EDIT_PAIRS)
        parts ==
            OptPart(subject.t # "absent", PyStr(subject))
            \o OptPart(Has(args, "command"), CommandPart(PyStr(Get(args, "command"))))
            \o OptPart(pair # <<>>, PairPart(Side(Get(args, pair[1])), Side(Get(args, pair[2]))))
            \o OptPart(Has(args, "pattern"), LabelPart(<<"p", "a", "t", "t", "e", "r", "n">>, Get(args, "pattern")))
            \o OptPart(Has(args, "regex"), LabelPart(<<"r", "e", "g", "e", "x">>, Get(args, "regex")))
    IN IF pair # <<>> /\ (Get(args, pair[1]).t # "str" \/ Get(args, pair[2]).t # "str")
       THEN Raised                    \* len() of a number
       ELSE IF subject.t = "num"
       THEN Raised                    \* join of a non-string
       ELSE IF Len(parts) > 0
       THEN Returned(CallLine(name, Join(parts, <<" ">>)))
       ELSE Returned(FallbackLine(name, args))

(***************************************************************************)
(* The arguments field of a tool call as decoded from JSON: a mapping      *)
(* (kind "dict", kv its pairs), a string (kind "str": raw is the string,   *)
(* decoded says what json.loads makes of it -- "dict" with pairs kv, "num" *)
(* or "fail"), or absent.                                                  *)
(***************************************************************************)
DictArgs(kv) == [kind |-> "dict", kv |-> kv, raw |-> <<>>, decoded |-> "dict"]

StrArgs(raw, decoded, kv) == [kind |-> "str", kv |-> kv, raw |-> raw, decoded |-> decoded]

NoArgs == [kind |-> "absent", kv |-> <<>>, raw |-> <<>>, decoded |-> "fail"]

UPPER == <<"A", "B", "C", "D", "E", "F", "G", "H", "I", "J", "K", "L", "M", "N", "O", "P", "Q", "R", "S", "T", "U", "V", "W", "X", "Y", "Z">>

LOWER == <<"a", "b", "c", "d", "e", "f", "g", "h", "i", "j", "k", "l", "m", "n", "o", "p", "q", "r", "s", "t", "u", "v", "w", "x", "y", "z">>

LowerChar(c) ==
    IF \E i \in 1..Len(UPPER) : UPPER[i] = c
    THEN LOWER[CHOOSE i \in 1..Len(UPPER) : UPPER[i] = c]
    ELSE c

\* s.lower()
Lower(s) == [i \in 1..Len(s) |-> LowerChar(s[i])]

WRITE_TOOLS == {<<"w", "r", "i", "t", "e">>, <<"f", "i", "l", "e", "_", "a", "c", "t", "i", "o", "n", "s">>, <<"c", "r", "e", "a", "t", "e">>}

\* the key of the command part of the Pi script: command, else cmd, else ""
PiCommandKey(args) ==
    IF Has(args, "command") THEN "command"
    ELSE IF Has(args, "cmd") THEN "cmd"
    ELSE ""

\* _format_tool_call of the Pi script, args a mapping
PiFormatMapping(name, args) ==
    LET subject == Subject(args, "path", "file_path")
        ckey == PiCommandKey(args)
        pair == FirstPair(args, PI_EDIT_PAIRS)
        withContent == Has(args, "content") /\ Lower(name) \in WRITE_TOOLS
        parts ==
            OptPart(subject.t # "absent", PyStr(subject))
            \o OptPart(ckey # "", CommandPart(PyStr(Get(args, ckey))))
            \o OptPart(pair # <<>>, PairPart(Side(Get(args, pair[1])), Side(Get(args, pair[2]))))
            \o OptPart(Has(args, "pattern"), LabelPart(<<"p", "a", "t", "t", "e", "r", "n">>, Get(args, "pattern")))
            \o OptPart(Has(args, "query"),
                       <<"\"">> \o PyStr(Get(args, "query")) \o <<"\"">>)
            \o OptPart(withContent,
                       <<"c", "o", "n", "t", "e", "n", "t", "=", "\"">>
                           \o EscapeNL(Cap(PyStr(Get(args, "content")), 60))
                           \o <<"\"">>)
    IN IF ckey # "" /\ Get(args, ckey).t # "str"
       THEN Raised                    \* len() of a number
       ELSE IF pair # <<>> /\ (Get(args, pair[1]).t # "str" \/ Get(args, pair[2]).t # "str")
       THEN Raised                    \* len() of a number
       ELSE IF withContent /\ Get(args, "content").t # "str"
       THEN Raised                    \* len() of a number
       ELSE IF subject.t = "num"
       THEN Raised                    \* join of a non-string
       ELSE IF Len(parts) > 0
       THEN Returned(CallLine(name, Join(parts, <<" ">>)))
       ELSE Returned(FallbackLine(name, args))

\* lines 208-215 of the Pi script: the arguments are decoded, then formatted
PiFormatToolCall(name, a) ==
    IF a.kind = "dict" THEN PiFormatMapping(name, a.kv)
    ELSE IF a.kind = "str" /\ a.decoded = "dict" THEN PiFormatMapping(name, a.kv)
    ELSE IF a.kind = "str" /\ a.decoded = "num" THEN Raised   \* "path" in 5
    ELSE PiFormatMapping(name, <<>>)

\* _format_tool_call of the Codex script, args a mapping
CodexFormatMapping(name, args) ==
    LET subject == Subject(args, "path", "file_path")
        pair == FirstPair(args, EDIT_PAIRS)
        parts ==
            OptPart(subject.t # "absent", PyStr(subject))
            \o OptPart(Has(args, "command"), CommandPart(PyStr(Get(args, "command"))))
            \o OptPart(pair # <<>>, PairPart(Side(Get(args, pair[1])), Side(Get(args, pair[2]))))
            \o OptPart(Has(args, "pattern"), LabelPart(<<"p", "a", "t", "t", "e", "r", "n">>, Get(args, "pattern")))
    IN IF pair # <<>> /\ (Get(args, pair[1]).t # "str" \/ Get(args, pair[2]).t # "str")
       THEN Raised                    \* len() of a number
       ELSE IF subject.t = "num"
       THEN Raised                    \* join of a non-string
       ELSE IF Len(parts) > 0
       THEN Returned(CallLine(name, Join(parts, <<" ">>)))
       ELSE Returned(FallbackLine(name, args))

\* _format_tool_call of the Codex script: a string is decoded first and kept
\* as a string when the decoding fails or gives a falsy value
CodexFormatToolCall(name, a) ==
    IF a.kind = "str"
    THEN IF a.decoded = "dict" /\ Len(a.kv) > 0 THEN CodexFormatMapping(name, a.kv)
         ELSE Returned(CallLine(name, Cap(a.raw, 60)))
    ELSE CodexFormatMapping(name, a.kv)

\* _format_tool_call(name, tool_input if isinstance(tool_input, dict) else {})
ClaudeFormatInput(name, a) ==
    ClaudeFormatToolCall(name, IF a.kind = "dict" THEN a.kv ELSE <<>>)

(***************************************************************************)
(* Content fragments and the composite assistant entry.                    *)
(***************************************************************************)
\* a fragment of a content list: type is its "type" field; text its "text"
\* (<<>> when absent); id its identifier ("" when absent); name its "name";
\* args its "input" / "arguments"; isError and content those of a result
Frag(type, text, id, name, args, isError, content) ==
    [type |-> type, text |-> text, id |-> id, name |-> name, args |-> args,
     isError |-> isError, content |-> content]

TextFrag(text) == Frag("text", text, "", Absent, NoArgs, FALSE, <<>>)

ThinkingFrag == Frag("thinking", <<>>, "", Absent, NoArgs, FALSE, <<>>)

\* the lines "   " + l of the continuation lines, blank ones dropped on demand
RECURSIVE Continuation(_, _)
Continuation(lines, dropBlank) ==
    IF Len(lines) = 0 THEN <<>>
    ELSE (IF dropBlank /\ Strip(lines[1]) = <<>> THEN <<>>
          ELSE <<<<" ", " ", " ">> \o lines[1]>>)
             \o Continuation(Tail(lines), dropBlank)

\* the string built from text_parts and tool_parts when one is non-empty
AssistantText(text_parts, tool_parts, dropBlank) ==
    LET text_lines == Split(Join(text_parts, <<NL>>))
        head == IF Len(text_parts) > 0
                THEN <<<<"A", ":", " ">> \o text_lines[1]>>
                         \o Continuation(Tail(text_lines), dropBlank)
                ELSE <<<<"A", ":">>>>
    IN Join(head \o tool_parts, <<NL>>)

\* the state of one run of process_session
State(out, table, raised) == [output |-> out, pending |-> table, raised |-> raised]

(***************************************************************************)
(* process_session of the Claude script.                                   *)
(***************************************************************************)
ClaudeRec(type, isMeta, isCompactSummary, msg, role, ckind, ctext, items) ==
    [type |-> type, isMeta |-> isMeta, isCompactSummary |-> isCompactSummary,
     msg |-> msg, role |-> role, ckind |-> ckind, ctext |-> ctext, items |-> items]

CAVEAT == <<"C", "a", "v", "e", "a", "t", ":">>

CONTINUED == <<"T", "h", "i", "s", " ", "s", "e", "s", "s", "i", "o", "n", " ", "i", "s", " ", "b", "e", "i", "n", "g", " ", "c", "o", "n", "t", "i", "n", "u", "e", "d">>

SUBSCRIPTION == <<"W", "i", "t", "h", " ", "y", "o", "u", "r", " ", "C", "l", "a", "u", "d", "e", " ", "M", "a", "x", " ", "s", "u", "b", "s", "c", "r", "i", "p", "t", "i", "o", "n">>

INTERRUPTED == <<"[", "R", "e", "q", "u", "e", "s", "t", " ", "i", "n", "t", "e", "r", "r", "u", "p", "t", "e", "d">>

USER_PREFIX == <<"U", "S", "E", "R", ":", " ">>

COMPACT_PREFIX == <<"[", "C", "O", "M", "P", "A", "C", "T", " ", "S", "U", "M", "M", "A", "R", "Y", "]", NL>>

COMPACT_LINES == 12

COMPACT_CHARS == 800

ClaudeNeverFound(table, id) == PLACEHOLDER

\* the name pending_tools.pop(tool_use_id, "tool") returns
ClaudePopName(table, id) == IF id \in DOMAIN table THEN table[id] ELSE PLACEHOLDER

\* the entry "TOOL [cmd]: (ok) " + _truncate(cleaned)
StdoutEntry(cleaned) ==
    [tag |-> "TOOL", name |-> CMD, ok |-> TRUE,
     text |-> <<" ">> \o Truncate(cleaned, MAX_OUTPUT_LINES, MAX_OUTPUT_CHARS)]

\* lines 222-248: the fragments of a user record, from fragment f on;
\* acc is [output, pending, parts]
RECURSIVE ClaudeUserItems(_, _, _, _)
ClaudeUserItems(items, f, acc, n) ==
    IF f > Len(items) THEN acc
    ELSE LET item == items[f]
             m == SearchCommandName(item.text)
             cleaned == CleanXmlContent(item.text)
             next ==
                IF item.type = "text"
                THEN IF item.text = <<>> THEN acc
                     ELSE IF Contains(item.text, NAME_OPEN)
                     THEN IF m.found
                          THEN [acc EXCEPT !.parts = Append(@, <<"[", "c", "m", "d", "]", " ">> \o m.inner)]
                          ELSE acc
                     ELSE IF Contains(item.text, STDOUT_OPEN)
                     THEN IF cleaned # <<>>
                          THEN [acc EXCEPT !.output = Emit(@, From(StdoutEntry(cleaned), n, f))]
                          ELSE acc
                     ELSE [acc EXCEPT !.parts = Append(@, item.text)]
                ELSE IF item.type = "tool_result"
                THEN [acc EXCEPT
                        !.pending = Without(@, item.id),
                        !.output = Emit(@, From(FormatToolResult(
                                       ClaudePopName(acc.pending, item.id),
                                       item.isError, item.content), n, f))]
                ELSE acc
         IN ClaudeUserItems(items, f + 1, next, n)

\* the list branch with the USER entry put before the entries of the fragments
ClaudeUserTextFirst(st, rec, n) ==
    IF rec.ckind = "list"
    THEN LET acc == ClaudeUserItems(rec.items, 1,
                        [output |-> <<>>, pending |-> st.pending, parts |-> <<>>], n)
             full_text == Join(acc.parts, <<NL>>)
         IN IF /\ Len(acc.parts) > 0
               /\ ~(StartsWith(full_text, CAVEAT) \/ StartsWith(full_text, CONTINUED))
            THEN State(Emit(st.output, From(Line("USER", USER_PREFIX \o full_text), n, 0))
                           \o acc.output,
                       acc.pending, FALSE)
            ELSE State(st.output \o acc.output, acc.pending, FALSE)
    ELSE st

\* lines 200-255: a record of role user
ClaudeUser(st, rec, n) ==
    IF rec.ckind = "str"
    THEN LET content == rec.ctext
             m == SearchCommandName(content)
             cleaned == CleanXmlContent(content)
         IN IF Contains(content, NAME_OPEN)
            THEN IF m.found
                 THEN [st EXCEPT !.output =
                          Emit(@, From(Line("USER", <<"U", "S", "E", "R", ":", " ", "[", "c", "m", "d", "]", " ">> \o m.inner), n, 0))]
                 ELSE st
            ELSE IF Contains(content, STDOUT_OPEN)
            THEN IF cleaned # <<>>
                 THEN [st EXCEPT !.output = Emit(@, From(StdoutEntry(cleaned), n, 0))]
                 ELSE st
            ELSE IF /\ content # <<>>
                    /\ ~StartsWith(content, CAVEAT)
                    /\ ~StartsWith(content, CONTINUED)
                    /\ ~StartsWith(content, SUBSCRIPTION)
                    /\ ~StartsWith(content, INTERRUPTED)
            THEN [st EXCEPT !.output =
                     Emit(@, From(Line("USER", USER_PREFIX \o content), n, 0))]
            ELSE st
    ELSE IF rec.ckind = "list"
    THEN LET acc == ClaudeUserItems(rec.items, 1,
                        [output |-> st.output, pending |-> st.pending, parts |-> <<>>], n)
             full_text == Join(acc.parts, <<NL>>)
         IN IF /\ Len(acc.parts) > 0
               /\ ~(StartsWith(full_text, CAVEAT) \/ StartsWith(full_text, CONTINUED))
            THEN State(Emit(acc.output, From(Line("USER", USER_PREFIX \o full_text), n, 0)),
                       acc.pending, FALSE)
            ELSE State(acc.output, acc.pending, FALSE)
    ELSE st

\* lines 262-282: the fragments of an assistant record, from fragment f on;
\* acc is [pending, text_parts, tool_parts, raised]
RECURSIVE ClaudeAssistantItems(_, _, _)
ClaudeAssistantItems(items, f, acc) ==
    IF f > Len(items) \/ acc.raised THEN acc
    ELSE LET item == items[f]
             name == GetOr(item.name, PLACEHOLDER)
             call == ClaudeFormatInput(name, item.args)
             table == IF item.id # "" THEN Put(acc.pending, item.id, name) ELSE acc.pending
             next ==
                IF item.type = "text"
                THEN IF item.text # <<>>
                     THEN [acc EXCEPT !.text_parts = Append(@, Strip(item.text))]
                     ELSE acc
                ELSE IF item.type = "tool_use"
                THEN IF call.raised
                     THEN [acc EXCEPT !.pending = table, !.raised = TRUE]
                     ELSE [acc EXCEPT !.pending = table,
                                      !.tool_parts = Append(@, <<" ", " ">> \o call.line)]
                ELSE acc
         IN ClaudeAssistantItems(items, f + 1, next)

\* lines 257-300: a record of role assistant
ClaudeAssistant(st, rec, n) ==
    LET acc == IF rec.ckind = "list"
               THEN ClaudeAssistantItems(rec.items, 1,
                        [pending |-> st.pending, text_parts |-> <<>>,
                         tool_parts |-> <<>>, raised |-> FALSE])
               ELSE IF rec.ckind = "str"
               THEN [pending |-> st.pending, text_parts |-> <<rec.ctext>>,
                     tool_parts |-> <<>>, raised |-> FALSE]
               ELSE [pending |-> st.pending, text_parts |-> <<>>,
                     tool_parts |-> <<>>, raised |-> FALSE]
    IN IF acc.raised THEN State(st.output, acc.pending, TRUE)
       ELSE IF Len(acc.text_parts) > 0 \/ Len(acc.tool_parts) > 0
       THEN State(Emit(st.output,
                       From(Line("A", AssistantText(acc.text_parts, acc.tool_parts, TRUE)),
                            n, 0)),
                  acc.pending, FALSE)
       ELSE State(st.output, acc.pending, FALSE)

\* the record handler without the drop of meta and snapshot records
ClaudeRecordMetaKept(st, rec, n) ==
    IF rec.msg # "dict" THEN st
    ELSE IF rec.role = "user" THEN ClaudeUser(st, rec, n)
    ELSE IF rec.role = "assistant" THEN ClaudeAssistant(st, rec, n)
    ELSE st

\* lines 175-300: one iteration of the loop of process_session, on the n-th record
ClaudeRecord(st, rec, n) ==
    IF rec.isMeta \/ rec.type = "file-history-snapshot" THEN st
    ELSE IF rec.isCompactSummary
    THEN IF rec.msg = "str" THEN [st EXCEPT !.raised = TRUE]    \* message.get of a str
         ELSE IF rec.msg = "dict" /\ rec.ckind = "str" /\ rec.ctext # <<>>
         THEN [st EXCEPT !.output =
                 Emit(@, From(Line("COMPACT", COMPACT_PREFIX
                          \o Truncate(rec.ctext, COMPACT_LINES, COMPACT_CHARS)), n, 0))]
         ELSE st
    ELSE IF rec.type \notin {"user", "assistant"} THEN st
    ELSE IF rec.msg # "dict" THEN st
    ELSE IF rec.role = "user" THEN ClaudeUser(st, rec, n)
    ELSE IF rec.role = "assistant" THEN ClaudeAssistant(st, rec, n)
    ELSE st

(***************************************************************************)
(* process_session of the Pi script.                                       *)
(***************************************************************************)
\* the stripped, non-empty texts of the fragments of type text
RECURSIVE TextParts(_)
TextParts(items) ==
    IF Len(items) = 0 THEN <<>>
    ELSE (IF items[1].type = "text" /\ Strip(items[1].text) # <<>>
          THEN <<Strip(items[1].text)>> ELSE <<>>) \o TextParts(Tail(items))

RECURSIVE RawTextParts(_)
RawTextParts(items) ==
    IF Len(items) = 0 THEN <<>>
    ELSE (IF items[1].type = "text" /\ Strip(items[1].text) # <<>>
          THEN <<items[1].text>> ELSE <<>>) \o RawTextParts(Tail(items))

ExtractTextRaw(ckind, ctext, items) ==
    IF ckind = "str" THEN Strip(ctext)
    ELSE IF ckind = "list" THEN Join(RawTextParts(items), <<NL>>)
    ELSE <<>>

\* _extract_text: content is absent, a string (ctext) or a list (items)
ExtractText(ckind, ctext, items) ==
    IF ckind = "str" THEN Strip(ctext)
    ELSE IF ckind = "list" THEN Join(TextParts(items), <<NL>>)
    ELSE <<>>

PiRec(type, msg, role, ckind, ctext, items, toolName, toolCallId, isError) ==
    [type |-> type, msg |-> msg, role |-> role, ckind |-> ckind, ctext |-> ctext,
     items |-> items, toolName |-> toolName, toolCallId |-> toolCallId,
     isError |-> isError]

\* lines 239-246: the name of a result: that of the pending call when the
\* identifier is in the table, else the record's own toolName, else "tool"
PiResultName(table, id, own) ==
    IF id \in DOMAIN table THEN table[id][1] ELSE OrElse(own, PLACEHOLDER)

\* lines 194-219: the fragments of an assistant record, from fragment f on
RECURSIVE PiAssistantItems(_, _, _)
PiAssistantItems(items, f, acc) ==
    IF f > Len(items) \/ acc.raised THEN acc
    ELSE LET item == items[f]
             name == GetOr(item.name, PLACEHOLDER)
             call == PiFormatToolCall(name, item.args)
             next ==
                IF item.type = "text"
                THEN IF Strip(item.text) # <<>>
                     THEN [acc EXCEPT !.text_parts = Append(@, Strip(item.text))]
                     ELSE acc
                ELSE IF item.type = "toolCall"
                THEN IF call.raised
                     THEN [acc EXCEPT !.raised = TRUE]
                     ELSE [acc EXCEPT
                             !.tool_parts = Append(@, <<" ", " ">> \o call.line),
                             !.pending = IF item.id # ""
                                         THEN Put(@, item.id, <<name, call.line>>)
                                         ELSE @]
                ELSE acc
         IN PiAssistantItems(items, f + 1, next)

\* lines 171-249: one iteration of the loop of process_session, on the n-th record
PiRecord(st, rec, n) ==
    IF rec.type # "message" THEN st
    ELSE IF rec.msg # "dict" THEN st
    ELSE IF rec.role = "user"
    THEN LET text == ExtractText(rec.ckind, rec.ctext, rec.items)
         IN IF text # <<>>
            THEN [st EXCEPT !.output =
                     Emit(@, From(Line("USER", USER_PREFIX \o text), n, 0))]
            ELSE st
    ELSE IF rec.role = "assistant"
    THEN LET acc == IF rec.ckind = "list"
                    THEN PiAssistantItems(rec.items, 1,
                             [pending |-> st.pending, text_parts |-> <<>>,
                              tool_parts |-> <<>>, raised |-> FALSE])
                    ELSE [pending |-> st.pending, text_parts |-> <<>>,
                          tool_parts |-> <<>>, raised |-> FALSE]
         IN IF acc.raised THEN State(st.output, acc.pending, TRUE)
            ELSE IF Len(acc.text_parts) > 0 \/ Len(acc.tool_parts) > 0
            THEN State(Emit(st.output,
                            From(Line("A", AssistantText(acc.text_parts, acc.tool_parts,
                                                         FALSE)), n, 0)),
                       acc.pending, FALSE)
            ELSE State(st.output, acc.pending, FALSE)
    ELSE IF rec.role = "toolResult"
    THEN State(Emit(st.output,
                    From(FormatToolResult(
                             PiResultName(st.pending, rec.toolCallId, rec.toolName),
                             rec.isError,
                             ExtractText(rec.ckind, rec.ctext, rec.items)), n, 0)),
               Without(st.pending, rec.toolCallId), FALSE)
    ELSE st

(***************************************************************************)
(* process_session of the Codex script.  The script keeps no pending-call  *)
(* table: the state's pending component is never written.                  *)
(***************************************************************************)
\* a record: type is its lower-cased "type"; name, callId ("call_id"), args
\* ("arguments"), out ("output") and isError those of a function call or of
\* its output; summary the texts of a reasoning record's summary list;
\* payload ("dict" or "absent"), ptype, prole, ckind, ctext and items the
\* payload of a response_item; role, content and choices the fields read by
\* _extract_role_and_text (an element of choices is [kind, text], kind
\* "dict" for a mapping whose message is text, "str" for a bare string);
\* the records carry none of the synonym keys actor, author, from, text,
\* message, body, msg, function, func, args, parameters, record_type
CodexRec(type, name, callId, args, out, isError, summary, payload, ptype, prole, ckind, ctext, items, role, content, choices) ==
    [type |-> type, name |-> name, callId |-> callId, args |-> args, out |-> out,
     isError |-> isError, summary |-> summary, payload |-> payload, ptype |-> ptype,
     prole |-> prole, ckind |-> ckind, ctext |-> ctext, items |-> items,
     role |-> role, content |-> content, choices |-> choices]

REASONING_PREFIX == <<"A", ":", " ", "[", "r", "e", "a", "s", "o", "n", "i", "n", "g", "]", " ">>

REASONING_LINES == 4

REASONING_CHARS == 200

INJECTION_CHARS == 500

ENVIRONMENT_CONTEXT == <<"<", "e", "n", "v", "i", "r", "o", "n", "m", "e", "n", "t", "_", "c", "o", "n", "t", "e", "x", "t", ">">>

USER_INSTRUCTIONS == <<"<", "u", "s", "e", "r", "_", "i", "n", "s", "t", "r", "u", "c", "t", "i", "o", "n", "s", ">">>

\* _flatten_text of a list of fragments that carry a "text" key
RECURSIVE FlattenItems(_)
FlattenItems(items) ==
    IF Len(items) = 0 THEN <<>>
    ELSE (IF items[1].text # <<>> THEN <<items[1].text>> ELSE <<>>)
             \o FlattenItems(Tail(items))

\* _flatten_text of a content that is absent, a string or a list
FlattenText(ckind, ctext, items) ==
    IF ckind = "str" THEN ctext
    ELSE IF ckind = "list" THEN Join(FlattenItems(items), <<NL>>)
    ELSE <<>>

\* lines 226-233: the entries of a reasoning record, from summary s on
RECURSIVE CodexReasoning(_, _, _, _)
CodexReasoning(out, summary, s, n) ==
    IF s > Len(summary) THEN out
    ELSE CodexReasoning(
             IF summary[s] # <<>>
             THEN Emit(out, From(Line("A", REASONING_PREFIX
                      \o Truncate(summary[s], REASONING_LINES, REASONING_CHARS)), n, s))
             ELSE out,
             summary, s + 1, n)

\* x or {} for the arguments of a call
ArgsOrEmpty(a) ==
    IF a.kind = "absent" \/ (a.kind = "str" /\ a.raw = <<>>) THEN DictArgs(<<>>) ELSE a

\* line 246: the name of a function_call_output record
CodexResultName(rec) == OrElse(rec.name, PLACEHOLDER)

\* lines 276-290: the fragments of an assistant payload, from fragment f on
RECURSIVE CodexAssistantItems(_, _, _)
CodexAssistantItems(items, f, acc) ==
    IF f > Len(items) \/ acc.raised THEN acc
    ELSE LET item == items[f]
             call == CodexFormatToolCall(OrElse(item.name, PLACEHOLDER),
                                         ArgsOrEmpty(item.args))
             next ==
                IF item.type \in {"text", "output_text"}
                THEN IF item.text # <<>>
                     THEN [acc EXCEPT !.text_parts = Append(@, Strip(item.text))]
                     ELSE acc
                ELSE IF item.type \in {"tool_use", "function_call"}
                THEN IF call.raised
                     THEN [acc EXCEPT !.raised = TRUE]
                     ELSE [acc EXCEPT !.tool_parts = Append(@, <<" ", " ">> \o call.line)]
                ELSE acc
         IN CodexAssistantItems(items, f + 1, next)

\* lines 254-307: a response_item record
CodexResponseItem(st, rec, n) ==
    IF rec.payload # "dict" THEN st
    ELSE IF rec.prole = "user" \/ rec.ptype = "user"
    THEN LET text == FlattenText(rec.ckind, rec.ctext, rec.items)
         IN IF /\ text # <<>>
               /\ ~StartsWith(text, ENVIRONMENT_CONTEXT)
               /\ ~StartsWith(text, USER_INSTRUCTIONS)
               /\ ~(/\ Len(text) > INJECTION_CHARS
                    /\ Contains(Take(text, 50), <<"<">>)
                    /\ Contains(Take(text, 100), <<">">>))
            THEN [st EXCEPT !.output =
                     Emit(@, From(Line("USER", USER_PREFIX \o text), n, 0))]
            ELSE st
    ELSE IF rec.prole = "assistant" \/ rec.ptype = "assistant"
    THEN LET acc == IF rec.ckind = "list"
                    THEN CodexAssistantItems(rec.items, 1,
                             [text_parts |-> <<>>, tool_parts |-> <<>>, raised |-> FALSE])
                    ELSE IF rec.ckind = "str"
                    THEN [text_parts |-> <<rec.ctext>>, tool_parts |-> <<>>,
                          raised |-> FALSE]
                    ELSE [text_parts |-> <<>>, tool_parts |-> <<>>, raised |-> FALSE]
         IN IF acc.raised THEN [st EXCEPT !.raised = TRUE]
            ELSE IF Len(acc.text_parts) > 0 \/ Len(acc.tool_parts) > 0
            THEN [st EXCEPT !.output =
                     Emit(@, From(Line("A", AssistantText(acc.text_parts, acc.tool_parts,
                                                          TRUE)), n, 0))]
            ELSE st
    ELSE st

\* the texts of the elements of choices
RECURSIVE ChoiceTexts(_)
ChoiceTexts(choices) ==
    IF Len(choices) = 0 THEN <<>>
    ELSE (IF choices[1].text # <<>> THEN <<choices[1].text>> ELSE <<>>)
             \o ChoiceTexts(Tail(choices))

\* _extract_role_and_text, as [raised, role, text]
ExtractRoleAndText(rec) ==
    LET text0 == IF rec.content.t = "str" THEN rec.content.s ELSE <<>>
        useChoices == text0 = <<>> /\ Len(rec.choices) > 0
        role0 == IF rec.role.t = "absent"
                 THEN (IF rec.type # "" THEN rec.type ELSE "unknown")
                 ELSE rec.role.s
        role == IF role0 \in {"human", "user", "end-user"} THEN "user"
                ELSE IF role0 \in {"assistant", "ai", "bot"} THEN "assistant"
                ELSE role0
    IN IF useChoices /\ \E i \in 1..Len(rec.choices) : rec.choices[i].kind # "dict"
       THEN [raised |-> TRUE, role |-> role, text |-> <<>>]   \* c.get of a str
       ELSE [raised |-> FALSE, role |-> role,
             text |-> IF useChoices THEN Join(ChoiceTexts(rec.choices), <<NL>>)
                      ELSE text0]

\* lines 217-316: one iteration of the loop of process_session, on the n-th record
CodexRecord(st, rec, n) ==
    IF rec.type = "session_meta" THEN st
    ELSE IF rec.type = "reasoning"
    THEN [st EXCEPT !.output = CodexReasoning(@, rec.summary, 1, n)]
    ELSE IF rec.type \in {"function_call", "function-call", "functioncall"}
    THEN LET call == CodexFormatToolCall(OrElse(rec.name, UNKNOWN), ArgsOrEmpty(rec.args))
         IN IF call.raised THEN [st EXCEPT !.raised = TRUE]
            ELSE [st EXCEPT !.output =
                     Emit(@, From(Line("A", <<"A", ":", NL, " ", " ">> \o call.line), n, 0))]
    ELSE IF rec.type \in {"function_call_output", "function-output", "functionoutput"}
    THEN [st EXCEPT !.output =
             Emit(@, From(FormatToolResult(CodexResultName(rec), rec.isError, rec.out),
                          n, 0))]
    ELSE IF rec.type = "response_item" THEN CodexResponseItem(st, rec, n)
    ELSE LET rt == ExtractRoleAndText(rec)
         IN IF rt.raised THEN [st EXCEPT !.raised = TRUE]
            ELSE IF rt.role = "user" /\ rt.text # <<>>
            THEN IF ~(StartsWith(rt.text, <<"<">>) /\ Contains(Take(rt.text, 100), <<">">>))
                 THEN [st EXCEPT !.output =
                          Emit(@, From(Line("USER", USER_PREFIX \o rt.text), n, 0))]
                 ELSE st
            ELSE IF rt.role = "assistant" /\ rt.text # <<>>
            THEN [st EXCEPT !.output =
                     Emit(@, From(Line("A", <<"A", ":", " ">> \o rt.text), n, 0))]
            ELSE st

(***************************************************************************)
(* The records the model draws from.                                       *)
(***************************************************************************)
Edit == <<"E", "d", "i", "t">>

Read == <<"R", "e", "a", "d">>

Bash == <<"B", "a", "s", "h">>

HI == <<"h", "i">>

OK == <<"o", "k">>

BLANK == <<" ">>

PATH_X == <<"/", "x">>

PathArgs == DictArgs(<<Arg("file_path", Str(PATH_X))>>)

\* a path that is a number: the join of key_parts raises
BadPathArgs == DictArgs(<<Arg("path", Num(<<"5">>))>>)

\* a command that is a number: len(cmd) raises in the Pi script
BadCommandArgs == DictArgs(<<Arg("command", Num(<<"5">>))>>)

ToolUse(id, name) == Frag("tool_use", <<>>, id, Str(name), PathArgs, FALSE, <<>>)

ToolResult(id) == Frag("tool_result", <<>>, id, Absent, NoArgs, FALSE, OK)

ClaudeMsg(role, ckind, ctext, items) ==
    ClaudeRec(role, FALSE, FALSE, "dict", role, ckind, ctext, items)

ClaudeCalls ==
    {ClaudeMsg("assistant", "list", <<>>, <<ToolUse(c[1], c[2])>>) :
        c \in {<<"a1", Edit>>, <<"a1", Read>>, <<"a2", Read>>, <<"", Edit>>}}
    \cup {ClaudeMsg("assistant", "list", <<>>, <<ToolUse("a1", Edit), ToolUse("a1", Read)>>),
          ClaudeMsg("assistant", "list", <<>>, <<TextFrag(OK), ToolUse("a2", Edit)>>),
          ClaudeMsg("assistant", "list", <<>>,
                    <<Frag("tool_use", <<>>, "a2", Str(Edit), BadPathArgs, FALSE, <<>>)>>)}

ClaudeResults ==
    {ClaudeMsg("user", "list", <<>>, <<ToolResult(id)>>) : id \in {"a1", "a2", ""}}
    \cup {ClaudeMsg("user", "list", <<>>, <<TextFrag(HI), ToolResult("a1")>>),
          ClaudeMsg("user", "list", <<>>, <<ToolResult("a1"), ToolResult("a1")>>)}

ClaudeTexts ==
    {ClaudeMsg("user", "str", HI, <<>>),
     ClaudeMsg("assistant", "str", <<>>, <<>>),
     ClaudeMsg("assistant", "list", <<>>, <<TextFrag(BLANK)>>),
     ClaudeMsg("assistant", "list", <<>>, <<ThinkingFrag>>)}

ClaudeOthers ==
    {ClaudeRec("assistant", TRUE, FALSE, "dict", "assistant", "list", <<>>,
               <<ToolUse("a2", Edit)>>),
     ClaudeRec("file-history-snapshot", FALSE, FALSE, "absent", "", "absent", <<>>, <<>>),
     ClaudeRec("system", FALSE, FALSE, "dict", "user", "str", HI, <<>>),
     ClaudeRec("user", FALSE, TRUE, "dict", "user", "str", HI, <<>>),
     ClaudeRec("user", FALSE, TRUE, "str", "", "absent", <<>>, <<>>)}

ClaudeRecords == ClaudeCalls \cup ClaudeResults \cup ClaudeTexts \cup ClaudeOthers

ToolCall(id, name, args) == Frag("toolCall", <<>>, id, Str(name), args, FALSE, <<>>)

PiMsg(role, ckind, ctext, items) ==
    PiRec("message", "dict", role, ckind, ctext, items, Absent, "", FALSE)

PiResult(id, own) == PiRec("message", "dict", "toolResult", "str", OK, <<>>, own, id, FALSE)

PiCalls ==
    {PiMsg("assistant", "list", <<>>, <<ToolCall(c[1], c[2], PathArgs)>>) :
        c \in {<<"a1", Edit>>, <<"a1", Read>>, <<"a2", Read>>, <<"", Edit>>}}
    \cup {PiMsg("assistant", "list", <<>>,
                <<ToolCall("a1", Edit, PathArgs), ToolCall("a1", Read, PathArgs)>>),
          PiMsg("assistant", "list", <<>>, <<TextFrag(OK), ToolCall("a2", Edit, PathArgs)>>),
          PiMsg("assistant", "list", <<>>, <<ToolCall("a2", Edit, BadCommandArgs)>>)}

PiResults ==
    {PiResult(id, Absent) : id \in {"a1", "a2", ""}}
    \cup {PiResult("a2", Str(Bash)), PiResult("", Str(Bash))}

PiTexts ==
    {PiMsg("user", "str", HI, <<>>),
     PiMsg("user", "str", BLANK, <<>>),
     PiMsg("assistant", "str", OK, <<>>),
     PiMsg("assistant", "list", <<>>, <<TextFrag(BLANK)>>),
     PiMsg("assistant", "list", <<>>, <<ThinkingFrag>>)}

PiOthers ==
    {PiRec("session", "absent", "", "absent", <<>>, <<>>, Absent, "", FALSE),
     PiRec("message", "str", "", "absent", <<>>, <<>>, Absent, "", FALSE)}

PiRecords == PiCalls \cup PiResults \cup PiTexts \cup PiOthers

\* the arguments of a Codex call: a string that encodes a mapping
CodexArgs == StrArgs(<<"{", "\"", "p", "a", "t", "h", "\"", ":", " ", "\"", "/", "x", "\"", "}">>, "dict", <<Arg("path", Str(PATH_X))>>)

CodexPlain(type) ==
    CodexRec(type, Absent, "", NoArgs, <<>>, FALSE, <<>>, "absent", "", "", "absent",
             <<>>, <<>>, Absent, Absent, <<>>)

CodexCall(name, callId) ==
    [CodexPlain("function_call") EXCEPT !.name = name, !.callId = callId, !.args = CodexArgs]

CodexOutput(name, callId) ==
    [CodexPlain("function_call_output") EXCEPT !.name = name, !.callId = callId, !.out = OK]

CodexItem(prole, ckind, ctext, items) ==
    [CodexPlain("response_item") EXCEPT !.payload = "dict", !.ptype = "message",
        !.prole = prole, !.ckind = ckind, !.ctext = ctext, !.items = items]

CodexMessage(role, text, choices) ==
    [CodexPlain("message") EXCEPT !.role = Str(role), !.content = text, !.choices = choices]

CodexCalls ==
    {CodexCall(Str(Edit), "a1"), CodexCall(Str(Read), "a2"), CodexCall(Absent, "a1"),
     [CodexCall(Str(Edit), "a2") EXCEPT !.args = BadPathArgs]}

CodexResults ==
    {CodexOutput(Absent, "a1"), CodexOutput(Absent, "a2"), CodexOutput(Absent, ""),
     CodexOutput(Str(Bash), "a2")}

CodexTexts ==
    {CodexItem("user", "str", HI, <<>>),
     CodexItem("assistant", "str", <<>>, <<>>),
     CodexItem("assistant", "list", <<>>, <<TextFrag(BLANK)>>),
     CodexItem("assistant", "list", <<>>,
               <<Frag("output_text", OK, "", Absent, NoArgs, FALSE, <<>>),
                 Frag("function_call", <<>>, "a1", Str(Edit), CodexArgs, FALSE, <<>>)>>),
     CodexMessage("user", Str(HI), <<>>),
     CodexMessage("ai", Str(OK), <<>>),
     CodexMessage("assistant", Absent, <<[kind |-> "dict", text |-> OK]>>)}

CodexOthers ==
    {CodexPlain("session_meta"),
     CodexPlain("response_item"),
     [CodexPlain("reasoning") EXCEPT !.summary = <<HI, <<>>, OK>>],
     CodexMessage("assistant", Absent, <<[kind |-> "str", text |-> OK]>>),
     CodexPlain("event"),
     [CodexPlain("event") EXCEPT !.role = Str("user"), !.content = Str(HI)]}

CodexRecords == CodexCalls \cup CodexResults \cup CodexTexts \cup CodexOthers

(***************************************************************************)
(* Invocations of process_session.                                         *)
(***************************************************************************)
Extractors == {"claude", "pi", "codex"}

Init ==
    /\ extractor \in Extractors
    /\ pc = "idle"
    /\ pending = EmptyTable
    /\ output = <<>>
    /\ consumed = <<>>
    /\ leftover = {}
    /\ total = 0
    /\ TruncIdle
    /\ HelperIdle

TableKept == pending

\* line 173 (169 in the Pi script): pending_tools = {}
NewTable == EmptyTable

\* process_session is entered: output and pending_tools are created empty
StartSession ==
    /\ pc \in {"idle", "returned", "raised"}
    /\ total < MaxRecords
    /\ pc' = "loop"
    /\ output' = <<>>
    /\ pending' = NewTable
    /\ consumed' = <<>>
    /\ leftover' = DOMAIN pending
    /\ UNCHANGED <<extractor, total>>
    /\ UNCHANGED truncVars
    /\ UNCHANGED helperVars

\* the loop takes the next record and the iteration runs to its end, or raises
Took(st, rec) ==
    /\ output' = st.output
    /\ pending' = st.pending
    /\ pc' = IF st.raised THEN "raised" ELSE "loop"
    /\ consumed' = Append(consumed, rec)
    /\ total' = total + 1
    /\ UNCHANGED <<extractor, leftover>>
    /\ UNCHANGED truncVars
    /\ UNCHANGED helperVars

ClaudeStep ==
    /\ extractor = "claude"
    /\ pc = "loop"
    /\ total < MaxRecords
    /\ \E rec \in ClaudeRecords :
          Took(ClaudeRecord(State(output, pending, FALSE), rec, Len(consumed) + 1), rec)

PiStep ==
    /\ extractor = "pi"
    /\ pc = "loop"
    /\ total < MaxRecords
    /\ \E rec \in PiRecords :
          Took(PiRecord(State(output, pending, FALSE), rec, Len(consumed) + 1), rec)

CodexStep ==
    /\ extractor = "codex"
    /\ pc = "loop"
    /\ total < MaxRecords
    /\ \E rec \in CodexRecords :
          Took(CodexRecord(State(output, pending, FALSE), rec, Len(consumed) + 1), rec)

\* line 302: return output
Return ==
    /\ pc = "loop"
    /\ pc' = "returned"
    /\ UNCHANGED <<extractor, pending, output, consumed, leftover, total>>
    /\ UNCHANGED truncVars
    /\ UNCHANGED helperVars

Next == StartSession \/ ClaudeStep \/ PiStep \/ CodexStep \/ Return

Spec == Init /\ [][Next]_vars

(***************************************************************************)
(* Vocabulary of the claims: which records are calls and results.          *)
(***************************************************************************)
\* a Claude record that reaches the role dispatch (lines 179-195)
ClaudeLive(rec) ==
    /\ ~rec.isMeta
    /\ rec.type \in {"user", "assistant"}
    /\ ~rec.isCompactSummary
    /\ rec.msg = "dict"

\* a Pi record that reaches the role dispatch (lines 174-179)
PiLive(rec) == rec.type = "message" /\ rec.msg = "dict"

\* the fragments of record rec in which the extractor sees a tool call
CallFrags(ext, rec) ==
    IF ext = "claude" /\ ClaudeLive(rec) /\ rec.role = "assistant" /\ rec.ckind = "list"
    THEN {f \in 1..Len(rec.items) : rec.items[f].type = "tool_use"}
    ELSE IF ext = "pi" /\ PiLive(rec) /\ rec.role = "assistant" /\ rec.ckind = "list"
    THEN {f \in 1..Len(rec.items) : rec.items[f].type = "toolCall"}
    ELSE {}

\* the fragments of record rec in which the extractor sees a tool result
\* (0: the record itself)
ResultFrags(ext, rec) ==
    IF ext = "claude" /\ ClaudeLive(rec) /\ rec.role = "user" /\ rec.ckind = "list"
    THEN {f \in 1..Len(rec.items) : rec.items[f].type = "tool_result"}
    ELSE IF ext = "pi" /\ PiLive(rec) /\ rec.role = "toolResult"
    THEN {0}
    ELSE IF ext = "codex" /\ rec.type = "function_call_output"
    THEN {0}
    ELSE {}

\* the identifier the result at fragment f of rec references
ResultId(ext, rec, f) ==
    IF ext = "claude" THEN rec.items[f].id
    ELSE IF ext = "pi" THEN rec.toolCallId
    ELSE rec.callId

CallIds(ext, rec) == {rec.items[f].id : f \in CallFrags(ext, rec)}

ResultIds(ext, rec) == {ResultId(ext, rec, f) : f \in ResultFrags(ext, rec)}

\* the name given by the call at fragment f of rec
CallName(rec, f) == GetOr(rec.items[f].name, PLACEHOLDER)

\* the last call fragment of rec with identifier x
LastCall(ext, rec, x) ==
    CHOOSE f \in CallFrags(ext, rec) :
        /\ rec.items[f].id = x
        /\ \A g \in CallFrags(ext, rec) : rec.items[g].id = x => g <= f

\* the name stored for an identifier of the table
StoredName(ext, table, x) == IF ext = "pi" THEN table[x][1] ELSE table[x]

\* entry k of the output answers the result at fragment f of the j-th record
Answers(k, j, f) ==
    /\ output[k].tag = "TOOL"
    /\ output[k].rec = j
    /\ output[k].frag = f
    /\ f \in ResultFrags(extractor, consumed[j])

\* the call of x in the i-th record is the latest mention of x before the
\* result at fragment f of the j-th record
Matches(i, j, f, x) ==
    /\ i < j
    /\ x \in CallIds(extractor, consumed[i])
    /\ \A m \in (i + 1)..(j - 1) :
          x \notin CallIds(extractor, consumed[m]) \cup ResultIds(extractor, consumed[m])
    /\ \A g \in ResultFrags(extractor, consumed[j]) :
          g < f => ResultId(extractor, consumed[j], g) # x

(***************************************************************************)
(* Claims about process_session (checked under Spec).                      *)
(***************************************************************************)
\* C1: in the Claude and Pi extractors, when a call with non-empty identifier
\* X and name N is followed later by a result that references X, with only
\* records, calls and results of other identifiers in between, the TOOL entry
\* emitted for that result is labelled N.
C1_ResultNamedByCall ==
    extractor \in {"claude", "pi"} =>
        \A k \in 1..Len(output) : \A j \in 1..Len(consumed) :
            \A f \in ResultFrags(extractor, consumed[j]) :
                Answers(k, j, f) =>
                    LET x == ResultId(extractor, consumed[j], f)
                    IN \A i \in 1..(j - 1) :
                          (x # "" /\ Matches(i, j, f, x)) =>
                              output[k].name =
                                  CallName(consumed[i], LastCall(extractor, consumed[i], x))

\* a call of a1 as Edit, an unrelated record, then the result of a1 shown as Edit
C1_Witness ==
    /\ extractor \in {"claude", "pi"}
    /\ Len(consumed) = 3
    /\ "a1" \in CallIds(extractor, consumed[1])
    /\ CallName(consumed[1], LastCall(extractor, consumed[1], "a1")) = Edit
    /\ "a2" \in CallIds(extractor, consumed[2])
    /\ \E f \in ResultFrags(extractor, consumed[3]) :
          /\ ResultId(extractor, consumed[3], f) = "a1"
          /\ \E k \in 1..Len(output) : Answers(k, 3, f) /\ output[k].name = Edit

\* C2: in the Codex extractor, a function_call record with correlation
\* identifier X and name N followed later by a function_call_output record
\* that references X yields a TOOL entry labelled N.
C2_CodexResultNamedByCall ==
    extractor = "codex" =>
        \A k \in 1..Len(output) : \A j \in 1..Len(consumed) :
            (Answers(k, j, 0) /\ consumed[j].callId # "") =>
                \A i \in 1..(j - 1) :
                    (/\ consumed[i].type = "function_call"
                     /\ consumed[i].callId = consumed[j].callId
                     /\ consumed[i].name.t = "str"
                     /\ \A m \in (i + 1)..(j - 1) :
                           consumed[m].callId # consumed[j].callId)
                        => output[k].name = consumed[i].name.s

\* the identifiers every call of which is non-empty and met once so far
DistinctCalls ==
    /\ \A i \in 1..Len(consumed) :
          /\ "" \notin CallIds(extractor, consumed[i])
          /\ \A f, g \in CallFrags(extractor, consumed[i]) :
                f # g => consumed[i].items[f].id # consumed[i].items[g].id
    /\ \A i, j \in 1..Len(consumed) :
          i # j => CallIds(extractor, consumed[i]) \cap CallIds(extractor, consumed[j]) = {}

\* the identifiers called and not referenced by a result since
Outstanding ==
    {x \in UNION {CallIds(extractor, consumed[i]) : i \in 1..Len(consumed)} :
        \E i \in 1..Len(consumed) :
            /\ x \in CallIds(extractor, consumed[i])
            /\ \A m \in (i + 1)..Len(consumed) : x \notin ResultIds(extractor, consumed[m])}

\* C3: in the Claude and Pi extractors, on a stream whose call identifiers are
\* non-empty and pairwise distinct, after every processed record the table
\* holds exactly the identifiers called and not yet answered by a result, each
\* with the name of its call.
C3_TableIsOutstanding ==
    (extractor \in {"claude", "pi"} /\ pc \in {"loop", "returned"} /\ DistinctCalls) =>
        /\ DOMAIN pending = Outstanding
        /\ \A x \in DOMAIN pending : \A i \in 1..Len(consumed) :
              x \in CallIds(extractor, consumed[i]) =>
                  StoredName(extractor, pending, x) =
                      CallName(consumed[i], LastCall(extractor, consumed[i], x))

\* two calls interleaved with the result of the first: only the second is left
C3_Witness ==
    /\ extractor \in {"claude", "pi"}
    /\ pc = "loop"
    /\ DistinctCalls
    /\ Len(consumed) = 3
    /\ CallIds(extractor, consumed[1]) = {"a1"}
    /\ CallIds(extractor, consumed[2]) = {"a2"}
    /\ ResultIds(extractor, consumed[3]) = {"a1"}
    /\ DOMAIN pending = {"a2"}


\* x was recorded by a call among the records processed so far
Called(x) ==
    \E i \in 1..Len(consumed) :
        \/ x \in CallIds(extractor, consumed[i])
        \/ /\ extractor = "codex"
           /\ consumed[i].type = "function_call"
           /\ consumed[i].callId = x

\* the result at fragment f of rec has no identifier or one never called
Miss(rec, f) ==
    /\ f \in ResultFrags(extractor, rec)
    /\ \/ ResultId(extractor, rec, f) = ""
       \/ ~Called(ResultId(extractor, rec, f))

\* the name field a result record carries itself, else the placeholder
OwnName(rec) ==
    IF extractor = "pi" THEN OrElse(rec.toolName, PLACEHOLDER)
    ELSE IF extractor = "codex" THEN OrElse(rec.name, PLACEHOLDER)
    ELSE PLACEHOLDER

\* the step that processes rec answers each of its misses with a TOOL entry
\* labelled label, goes on, and leaves the table alone
MissesAnswered(rec, label) ==
    /\ \A f \in ResultFrags(extractor, rec) :
          Miss(rec, f) =>
              /\ pc' = "loop"
              /\ \E k \in (Len(output) + 1)..Len(output') :
                    /\ output'[k].tag = "TOOL"
                    /\ output'[k].rec = Len(consumed')
                    /\ output'[k].frag = f
                    /\ output'[k].name = label
    /\ (ResultFrags(extractor, rec) # {} /\ \A f \in ResultFrags(extractor, rec) : Miss(rec, f))
          => pending' = pending

\* a step of the loop
Processes == pc = "loop" /\ Len(consumed') = Len(consumed) + 1

C5_OrderedByRecord ==
    /\ \A k \in 1..Len(output) : output[k].rec \in 1..Len(consumed)
    /\ \A k, l \in 1..Len(output) : k < l => output[k].rec <= output[l].rec

\* three records in a row each left an entry
C5_Witness ==
    /\ Len(consumed) = 3
    /\ \A i \in 1..3 : \E k \in 1..Len(output) : output[k].rec = i

\* C6: process_session never raises, whatever field is absent or of an
\* unexpected type.
C6_NeverRaises == pc # "raised"

\* an assistant message record, as each extractor selects it
AssistantRecord(ext, rec) ==
    IF ext = "claude" THEN ClaudeLive(rec) /\ rec.role = "assistant"
    ELSE IF ext = "pi" THEN PiLive(rec) /\ rec.role = "assistant"
    ELSE /\ rec.type = "response_item"
         /\ rec.payload = "dict"
         /\ rec.prole # "user" /\ rec.ptype # "user"
         /\ (rec.prole = "assistant" \/ rec.ptype = "assistant")


\* the content of rec is an empty or blank string, or a list of nothing but
\* empty or blank text fragments
Barren(rec) ==
    \/ rec.ckind = "str" /\ Strip(rec.ctext) = <<>>
    \/ /\ rec.ckind = "list"
       /\ \A f \in 1..Len(rec.items) :
             rec.items[f].type = "text" /\ Strip(rec.items[f].text) = <<>>

\* C7: in every extractor an assistant record with no extractable text and no
\* tool calls (its content the empty string, or only empty or blank text
\* fragments) leaves no entry in the output.
C7_BarrenSuppressed ==
    \A i \in 1..Len(consumed) :
        (AssistantRecord(extractor, consumed[i]) /\ Barren(consumed[i])) =>
            \A k \in 1..Len(output) : output[k].rec # i

\* one iteration of the loop of the extractor ext on the n-th record
RecordOf(ext, st, rec, n) ==
    IF ext = "claude" THEN ClaudeRecord(st, rec, n)
    ELSE IF ext = "pi" THEN PiRecord(st, rec, n)
    ELSE CodexRecord(st, rec, n)

\* process_session of ext on the stream recs alone, from its n-th record on
RECURSIVE RunFrom(_, _, _, _)
RunFrom(ext, st, recs, n) ==
    IF n > Len(recs) \/ st.raised THEN st
    ELSE RunFrom(ext, RecordOf(ext, st, recs[n], n), recs, n + 1)

Alone(ext, recs) == RunFrom(ext, State(<<>>, EmptyTable, FALSE), recs, 1)

\* C8: the table is empty when process_session starts and nothing survives an
\* invocation: in an invocation that comes after earlier ones that processed
\* records (total counts them too), the output and the table are those of
\* processing its own records alone, so a call of an earlier session never
\* names a result of this one.
C8_NoStateAcrossSessions ==
    /\ (pc = "loop" /\ consumed = <<>>) => (pending = EmptyTable /\ output = <<>>)
    /\ (pc \in {"loop", "returned", "raised"} /\ total > Len(consumed)) =>
          LET alone == Alone(extractor, consumed)
          IN /\ output = alone.output
             /\ pending = alone.pending
             /\ (pc = "raised") = alone.raised

\* the earlier session left a call unanswered, and its result arriving in this
\* session is labelled with the placeholder
C8_Witness ==
    /\ extractor \in {"claude", "pi"}
    /\ pc = "loop"
    /\ leftover # {}
    /\ \E j \in 1..Len(consumed) : \E f \in ResultFrags(extractor, consumed[j]) :
          /\ ResultId(extractor, consumed[j], f) \in leftover
          /\ \E k \in 1..Len(output) : Answers(k, j, f) /\ output[k].name = PLACEHOLDER


(***************************************************************************)
(* Calls of the text extraction helpers on bounded contents.               *)
(***************************************************************************)
MaxFragments == 2

\* _extract_text_from_content of the Claude script
ExtractTextFromContent(ckind, ctext, items) ==
    IF ckind = "str" THEN Strip(ctext)
    ELSE IF ckind = "list" THEN Join(TextParts(items), <<NL>>)
    ELSE <<>>

ContentChars == {" ", "a", NL}

RECURSIVE ContentTextsOfLen(_)
ContentTextsOfLen(n) ==
    IF n = 0 THEN {<<>>}
    ELSE {Append(t, c) : t \in ContentTextsOfLen(n - 1), c \in ContentChars}

ContentTexts == UNION {ContentTextsOfLen(n) : n \in 0..MaxTextLen}

FragmentTexts == {<<>>, <<" ">>, <<"a">>, <<" ", "a", " ">>, <<"a", NL, "b">>, <<NL, "b">>}

Fragments ==
    {Frag(type, text, "", Absent, NoArgs, FALSE, <<>>) :
        type \in {"text", "thinking", "tool_use"}, text \in FragmentTexts}

RECURSIVE FragmentLists(_)
FragmentLists(n) ==
    IF n = 0 THEN {<<>>}
    ELSE FragmentLists(n - 1)
             \cup {Append(l, f) : l \in {m \in FragmentLists(n - 1) : Len(m) = n - 1},
                                  f \in Fragments}

\* a content: absent, a string, a list of fragments, or of another type
Contents ==
    {[ckind |-> "absent", ctext |-> <<>>, items |-> <<>>],
     [ckind |-> "other", ctext |-> <<>>, items |-> <<>>]}
    \cup {[ckind |-> "str", ctext |-> t, items |-> <<>>] : t \in ContentTexts}
    \cup {[ckind |-> "list", ctext |-> <<>>, items |-> l] : l \in FragmentLists(MaxFragments)}

\* the extraction helper of script fn applied to content c
Extract(fn, c) ==
    IF fn = "claude" THEN ExtractTextFromContent(c.ckind, c.ctext, c.items)
    ELSE ExtractText(c.ckind, c.ctext, c.items)

ExtractInit ==
    /\ SessionIdle
    /\ TruncIdle
    /\ fIn \in {[fn |-> fn, content |-> c] : fn \in {"claude", "pi"}, c \in Contents}
    /\ fOut = <<>>
    /\ fPc = "call"

\* the helper is called on the content
ExtractCall ==
    /\ fPc = "call"
    /\ fOut' = <<Extract(fIn.fn, fIn.content)>>
    /\ fPc' = "ret"
    /\ UNCHANGED fIn
    /\ UNCHANGED <<sessionVars, truncVars>>

\* the helper is called on the string it returned
ExtractAgain ==
    /\ fPc = "ret"
    /\ fOut' = Append(fOut, Extract(fIn.fn, [ckind |-> "str", ctext |-> fOut[1], items |-> <<>>]))
    /\ fPc' = "again"
    /\ UNCHANGED fIn
    /\ UNCHANGED <<sessionVars, truncVars>>

ExtractNext == ExtractCall \/ ExtractAgain

SpecExtract == ExtractInit /\ [][ExtractNext]_vars

\* a fragment that contributes: tagged text, with a text that is not blank
Contributes(item) == item.type = "text" /\ Strip(item.text) # <<>>

\* the trimmed texts of the contributing fragments, in their order
Trimmed(items) ==
    [i \in 1..Len(SelectSeq(items, Contributes)) |->
        Strip(SelectSeq(items, Contributes)[i].text)]

\* C11: text extraction is idempotent: applied to the string it returned, the
\* helper of the Claude and of the Pi script returns that string unchanged; of
\* a list only the fragments tagged text contribute, each trimmed, joined by
\* newlines in their order.
C11_ExtractIdempotent ==
    fPc = "again" =>
        /\ fOut[2] = fOut[1]
        /\ fIn.content.ckind = "list" =>
              fOut[1] = Join(Trimmed(fIn.content.items), <<NL>>)
        /\ fIn.content.ckind = "str" => fOut[1] = Strip(fIn.content.ctext)

\* a list of two padded text fragments was extracted, and extracted again
C11_Witness ==
    /\ fPc = "again"
    /\ fIn.content.ckind = "list"
    /\ Len(fIn.content.items) = 2
    /\ fIn.content.items[1].type = "text"
    /\ fIn.content.items[1].text = <<" ", "a", " ">>
    /\ fIn.content.items[2].type = "text"
    /\ fIn.content.items[2].text = <<NL, "b">>
    /\ fOut = <<<<"a", NL, "b">>, <<"a", NL, "b">>>>


(***************************************************************************)
(* Calls of _clean_xml_content on bounded texts.                           *)
(***************************************************************************)
MaxPieces == 3

\* the pieces the texts are made of
Pieces ==
    {STDOUT_OPEN, STDOUT_CLOSE, <<"4", "2">>, <<" ">>, <<"<">>, <<"<", "b", ">">>,
     NAME_OPEN \o <<"l", "s">> \o NAME_CLOSE}

RECURSIVE PieceTexts(_)
PieceTexts(n) ==
    IF n = 0 THEN {<<>>}
    ELSE PieceTexts(n - 1) \cup {t \o p : t \in PieceTexts(n - 1), p \in Pieces}

CleanInit ==
    /\ SessionIdle
    /\ TruncIdle
    /\ fIn \in PieceTexts(MaxPieces)
    /\ fOut = <<>>
    /\ fPc = "call"

CleanCall ==
    /\ fPc = "call"
    /\ fOut' = CleanXmlContent(fIn)
    /\ fPc' = "ret"
    /\ UNCHANGED fIn
    /\ UNCHANGED <<sessionVars, truncVars>>

CleanNext == CleanCall

SpecClean == CleanInit /\ [][CleanNext]_vars

\* the positions of the opening tags of t that a closing tag follows
Wrappers(t) ==
    {i \in 1..Len(t) :
        /\ Find(t, STDOUT_OPEN, i) = i
        /\ Find(t, STDOUT_CLOSE, i + Len(STDOUT_OPEN)) > 0}

\* what the wrapper opened at i encloses
Inner(t, i) ==
    SubSeq(t, i + Len(STDOUT_OPEN), Find(t, STDOUT_CLOSE, i + Len(STDOUT_OPEN)) - 1)

\* C12: whenever the text contains a local-command-stdout wrapper, the result
\* of _clean_xml_content is exactly the trimmed inner content of a wrapper,
\* whatever that content is and whatever else the text contains.
C12_StdoutFirst ==
    (fPc = "ret" /\ Wrappers(fIn) # {}) =>
        \E i \in Wrappers(fIn) : fOut = Strip(Inner(fIn, i))


(***************************************************************************)
(* Calls of _format_tool_call on bounded argument mappings.                *)
(***************************************************************************)
MaxArgs == 4

\* the keys of the mappings, in the order the mapping holds them
ARG_KEYS ==
    <<"file_path", "path", "command", "old_str", "new_str", "search", "replace",
      "oldText", "newText", "pattern", "regex">>

\* one character that stands for the value of a key and occurs in no label
KeyMark(k) ==
    CASE k = "file_path" -> "F"
      [] k = "path" -> "P"
      [] k = "command" -> "C"
      [] k = "old_str" -> "1"
      [] k = "new_str" -> "2"
      [] k = "search" -> "3"
      [] k = "replace" -> "4"
      [] k = "oldText" -> "5"
      [] k = "newText" -> "6"
      [] k = "pattern" -> "T"
      [] OTHER -> "X"

\* the values a key may hold: one line, or two lines
ValuesOf(k) == {Str(<<KeyMark(k)>>), Str(<<KeyMark(k), NL, KeyMark(k)>>)}

\* the mappings over the keys from the i-th on, of at most n entries
RECURSIVE Mappings(_, _)
Mappings(i, n) ==
    IF i > Len(ARG_KEYS) \/ n = 0 THEN {<<>>}
    ELSE Mappings(i + 1, n)
             \cup {<<Arg(ARG_KEYS[i], v)>> \o rest :
                      v \in ValuesOf(ARG_KEYS[i]), rest \in Mappings(i + 1, n - 1)}

\* _format_tool_call of the script ext on a mapping
FormatMapping(ext, name, args) ==
    IF ext = "claude" THEN ClaudeFormatToolCall(name, args)
    ELSE IF ext = "pi" THEN PiFormatMapping(name, args)
    ELSE CodexFormatToolCall(name, DictArgs(args))

FormatInit ==
    /\ SessionIdle
    /\ TruncIdle
    /\ fIn \in {[ext |-> e, name |-> n, args |-> a] :
                   e \in Extractors, n \in {Edit, Bash}, a \in Mappings(1, MaxArgs)}
    /\ fOut = <<>>
    /\ fPc = "call"

FormatCall ==
    /\ fPc = "call"
    /\ fOut' = FormatMapping(fIn.ext, fIn.name, fIn.args)
    /\ fPc' = "ret"
    /\ UNCHANGED fIn
    /\ UNCHANGED <<sessionVars, truncVars>>

FormatNext == FormatCall

SpecFormat == FormatInit /\ [][FormatNext]_vars

\* C13: for every tool name and every argument mapping _format_tool_call
\* returns one line, [name] and the rendered arguments, with no newline in it,
\* also when a path, command, pattern or regex argument holds newlines.
C13_SingleLine ==
    fPc = "ret" =>
        /\ ~fOut.raised
        /\ StartsWith(fOut.line, <<"[">> \o fIn.name \o <<"]", " ">>)
        /\ ~Contains(fOut.line, <<NL>>)

\* C14: in every extractor, when the arguments hold both file_path and path,
\* the primary-subject slot of the line shows the value of file_path and the
\* value of path does not appear.
C14_FilePathFirst ==
    (fPc = "ret" /\ Has(fIn.args, "file_path") /\ Has(fIn.args, "path")) =>
        /\ ~fOut.raised
        /\ StartsWith(fOut.line,
                      CallLine(fIn.name, Get(fIn.args, "file_path").s))
        /\ ~Contains(fOut.line, <<KeyMark("path")>>)

\* the positions in the priority order of the pairs complete in args
CompletePairs(args) ==
    {i \in 1..Len(EDIT_PAIRS) :
        Has(args, EDIT_PAIRS[i][1]) /\ Has(args, EDIT_PAIRS[i][2])}

\* the rendering of the i-th pair of the priority order
RenderedPair(args, i) ==
    PairPart(Side(Get(args, EDIT_PAIRS[i][1])), Side(Get(args, EDIT_PAIRS[i][2])))

\* C15: in every extractor at most one before/after pair is rendered, the
\* first complete one in the order (old_str,new_str), (search,replace),
\* (oldText,newText), as before, arrow, after, each in double quotes.
C15_FirstPairOnly ==
    fPc = "ret" =>
        /\ ~fOut.raised
        /\ \A i \in 1..Len(EDIT_PAIRS) :
              (/\ i \in CompletePairs(fIn.args)
               /\ Contains(fOut.line, RenderedPair(fIn.args, i)))
                  <=> (/\ i \in CompletePairs(fIn.args)
                       /\ \A j \in CompletePairs(fIn.args) : i <= j)


\* the record types the dispatch of the Codex script names, and the generic
\* message type
CODEX_TYPES ==
    {"session_meta", "reasoning", "function_call", "function-call", "functioncall",
     "function_call_output", "function-output", "functionoutput", "response_item",
     "message"}

\* a record the extractor ext drops for its flag or its type
Dropped(ext, rec) ==
    IF ext = "claude"
    THEN \/ rec.isMeta
         \/ rec.type = "file-history-snapshot"
         \/ rec.type \notin {"user", "assistant"} /\ ~rec.isCompactSummary
    ELSE IF ext = "pi" THEN rec.type # "message"
    ELSE rec.type \notin CODEX_TYPES

\* a record dropped for its flag or type; in the Codex script one of another
\* type that carries no role, content or choices either
DroppedBare(ext, rec) ==
    /\ Dropped(ext, rec)
    /\ ext = "codex" =>
          rec.role.t = "absent" /\ rec.content.t = "absent" /\ rec.choices = <<>>

\* the step leaves the output and the table as they were and goes on
NothingChanged == output' = output /\ pending' = pending /\ pc' = "loop"

BOILERPLATE == <<CAVEAT, CONTINUED, SUBSCRIPTION, INTERRUPTED>>

\* texts of a user record: boilerplate with and without a tail, plain text,
\* a command name and a command output
UserTexts ==
    {BOILERPLATE[i] \o tail : i \in 1..Len(BOILERPLATE), tail \in {<<>>, <<" ", "x">>}}
        \cup {HI, NAME_OPEN \o <<"l", "s">> \o NAME_CLOSE, STDOUT_OPEN \o <<"4", "2">> \o STDOUT_CLOSE}

UserFragments == {TextFrag(t) : t \in UserTexts} \cup {ToolResult("a1"), ToolResult("a2")}

RECURSIVE UserFragmentLists(_)
UserFragmentLists(n) ==
    IF n = 0 THEN {<<>>}
    ELSE LET shorter == UserFragmentLists(n - 1)
         IN shorter \cup {Append(l, f) : l \in {s \in shorter : Len(s) = n - 1},
                                         f \in UserFragments}

UserRecords ==
    {ClaudeMsg("user", "str", t, <<>>) : t \in UserTexts}
        \cup {ClaudeMsg("user", "list", <<>>, l) : l \in UserFragmentLists(MaxFragments)}

UserInit ==
    /\ SessionIdle
    /\ TruncIdle
    /\ fIn \in {[rec |-> r, table |-> t] :
                   r \in UserRecords, t \in {EmptyTable, Put(EmptyTable, "a1", Edit)}}
    /\ fOut = <<>>
    /\ fPc = "call"

\* the record is handled
UserCall ==
    /\ fPc = "call"
    /\ fOut' = ClaudeRecord(State(<<>>, fIn.table, FALSE), fIn.rec, 1)
    /\ fPc' = "ret"
    /\ UNCHANGED fIn
    /\ UNCHANGED <<sessionVars, truncVars>>

\* the entries are taken
UserTaken ==
    /\ fPc = "ret"
    /\ fPc' = "done"
    /\ UNCHANGED <<fIn, fOut>>
    /\ UNCHANGED <<sessionVars, truncVars>>

UserNext == UserCall \/ UserTaken

SpecUser == UserInit /\ [][UserNext]_vars

\* the text of a user record: its string, or its text fragments joined
OnlyText(rec) == \A f \in 1..Len(rec.items) : rec.items[f].type = "text"

UserText(rec) ==
    IF rec.ckind = "str" THEN rec.ctext
    ELSE Join([f \in 1..Len(rec.items) |-> rec.items[f].text], <<NL>>)

Boilerplate(text) == \E i \in 1..Len(BOILERPLATE) : StartsWith(text, BOILERPLATE[i])

\* C17: a user record of the Claude extractor whose text starts with one of
\* the four boilerplate prefixes produces no USER entry, as a plain string and
\* as a list of text fragments.
C17_BoilerplateSkipped ==
    (/\ fPc = "ret"
     /\ fIn.rec.ckind = "list" => OnlyText(fIn.rec) /\ fIn.rec.items # <<>>
     /\ Boilerplate(UserText(fIn.rec)))
        => \A i \in 1..Len(fOut.output) : fOut.output[i].tag # "USER"


\* the fragments of a user record that yield a TOOL entry: tool results, and
\* command output that cleans to something
ToolFragments(rec) ==
    {f \in 1..Len(rec.items) :
        \/ rec.items[f].type = "tool_result"
        \/ /\ rec.items[f].type = "text"
           /\ ~Contains(rec.items[f].text, NAME_OPEN)
           /\ Contains(rec.items[f].text, STDOUT_OPEN)
           /\ CleanXmlContent(rec.items[f].text) # <<>>}

\* C20: in the Claude extractor the TOOL entries of one user record with list
\* content come in fragment order, one per tool_result and command-output
\* fragment, and the single USER entry of the record comes after all of them.
C20_ToolsThenUser ==
    (fPc = "ret" /\ fIn.rec.ckind = "list") =>
        LET out == fOut.output
        IN /\ \A i \in 1..Len(out) : out[i].tag \in {"TOOL", "USER"}
           /\ \A i, j \in 1..Len(out) : (i < j /\ out[j].tag = "TOOL") =>
                 out[i].tag = "TOOL" /\ out[i].frag < out[j].frag
           /\ {out[i].frag : i \in {k \in 1..Len(out) : out[k].tag = "TOOL"}}
                 = ToolFragments(fIn.rec)
           /\ Cardinality({i \in 1..Len(out) : out[i].tag = "USER"}) <= 1

\* a text fragment before a tool result: the TOOL entry still comes first
C20_Witness ==
    /\ fPc = "ret"
    /\ fIn.rec.ckind = "list"
    /\ Len(fIn.rec.items) = 2
    /\ fIn.rec.items[1].type = "text"
    /\ fIn.rec.items[2].type = "tool_result"
    /\ Len(fOut.output) = 2
    /\ fOut.output[1].tag = "TOOL"
    /\ fOut.output[1].frag = 2
    /\ fOut.output[2].tag = "USER"
    /\ fOut.output[2].text = USER_PREFIX \o fIn.rec.items[1].text


\* the calls and the results of identifier x in the records processed, each
\* as <<record, fragment>>
CallsOf(x) ==
    UNION {{<<i, f>> : f \in {g \in CallFrags(extractor, consumed[i]) :
                                  consumed[i].items[g].id = x}} :
           i \in 1..Len(consumed)}

ResultsOf(x) ==
    UNION {{<<i, f>> : f \in {g \in ResultFrags(extractor, consumed[i]) :
                                  ResultId(extractor, consumed[i], g) = x}} :
           i \in 1..Len(consumed)}

Before(p, q) == p[1] < q[1] \/ (p[1] = q[1] /\ p[2] < q[2])

\* q is the next after p among the mentions all
NextOf(all, p, q) ==
    /\ Before(p, q)
    /\ \A m \in all : ~(Before(p, m) /\ Before(m, q))

\* none of the mentions all comes after p
LastOf(all, p) == \A m \in all : ~Before(p, m)

\* the result r has one TOOL entry, labelled name
Labelled(r, name) ==
    /\ \E k \in 1..Len(output) : Answers(k, r[1], r[2])
    /\ \A k \in 1..Len(output) : Answers(k, r[1], r[2]) => output[k].name = name

\* the overwriting of C19 for the identifier x
Overwrites(x) ==
    LET calls == CallsOf(x)
        results == ResultsOf(x)
        all == calls \cup results
    IN \A c1, c2 \in calls :
          NextOf(all, c1, c2) =>
              /\ LastOf(all, c2) =>
                    /\ x \in DOMAIN pending
                    /\ StoredName(extractor, pending, x) = CallName(consumed[c2[1]], c2[2])
              /\ \A r1 \in results :
                    NextOf(all, c2, r1) =>
                        /\ Labelled(r1, CallName(consumed[c2[1]], c2[2]))
                        /\ LastOf(all, r1) => x \notin DOMAIN pending
                        /\ \A r2 \in results :
                              NextOf(all, r1, r2) =>
                                  /\ Labelled(r2, OwnName(consumed[r2[1]]))
                                  /\ LastOf(all, r2) => x \notin DOMAIN pending

\* C19: in the Claude and Pi extractors, when two calls carry the same
\* identifier X with names N1 then N2 and no result of X lies between them,
\* the second call overwrites the entry: the table holds X with N2, the first
\* later result of X is labelled N2 and removes the entry, and a second result
\* of X is labelled with the fallback name (the name field of the result
\* record itself in Pi when it has one, else tool).
C19_SecondCallOverwrites ==
    (extractor \in {"claude", "pi"} /\ pc \in {"loop", "returned"}) =>
        \A x \in {"a1", "a2"} : Overwrites(x)

\* a1 called as Edit and again as Read, then two results of a1: the first is
\* shown as Read, the second as tool
C19_Witness ==
    /\ extractor \in {"claude", "pi"}
    /\ pc = "loop"
    /\ \E c1, c2 \in CallsOf("a1") : \E r1, r2 \in ResultsOf("a1") :
          LET all == CallsOf("a1") \cup ResultsOf("a1")
          IN /\ NextOf(all, c1, c2) /\ NextOf(all, c2, r1) /\ NextOf(all, r1, r2)
             /\ CallName(consumed[c1[1]], c1[2]) = Edit
             /\ CallName(consumed[c2[1]], c2[2]) = Read
             /\ Labelled(r1, Read)
             /\ Labelled(r2, PLACEHOLDER)
    /\ "a1" \notin DOMAIN pending


\* the fragments of an assistant record in which the extractor sees a tool call
AssistantCalls(ext, rec) ==
    {f \in 1..Len(rec.items) :
        rec.items[f].type \in (IF ext = "claude" THEN {"tool_use"}
                               ELSE IF ext = "pi" THEN {"toolCall"}
                               ELSE {"tool_use", "function_call"})}

\* the fragments of an assistant record that carry text that is not blank
AssistantTexts(ext, rec) ==
    {f \in 1..Len(rec.items) :
        /\ rec.items[f].type \in (IF ext = "codex" THEN {"text", "output_text"} ELSE {"text"})
        /\ Strip(rec.items[f].text) # <<>>}

\* the members of a set of fragment numbers, in order
RECURSIVE InOrder(_)
InOrder(fs) ==
    IF fs = {} THEN <<>>
    ELSE LET f == CHOOSE g \in fs : \A h \in fs : g <= h
         IN <<f>> \o InOrder(fs \ {f})

\* the lines of the text of an assistant record
TextLines(ext, rec) ==
    LET fs == InOrder(AssistantTexts(ext, rec))
    IN Split(Join([k \in 1..Len(fs) |-> Strip(rec.items[fs[k]].text)], <<NL>>))

\* entry is the composite entry of the assistant record rec
Composite(ext, rec, entry) ==
    LET calls == InOrder(AssistantCalls(ext, rec))
        hasText == AssistantTexts(ext, rec) # {}
        text_lines == TextLines(ext, rec)
        lines == Split(entry.text)
        head == IF hasText THEN Len(text_lines) ELSE 1
    IN /\ entry.tag = "A"
       /\ Len(lines) = head + Len(calls)
       /\ lines[1] = (IF hasText THEN <<"A", ":", " ">> \o text_lines[1] ELSE <<"A", ":">>)
       /\ hasText => \A k \in 2..Len(text_lines) : lines[k] = <<" ", " ", " ">> \o text_lines[k]
       /\ \A c \in 1..Len(calls) :
             StartsWith(lines[head + c],
                        <<" ", " ", "[">> \o CallName(rec, calls[c]) \o <<"]", " ">>)

\* every call fragment of rec with an identifier is in the table
Registered(ext, rec, table) ==
    \A f \in AssistantCalls(ext, rec) :
        rec.items[f].id # "" => rec.items[f].id \in DOMAIN table

\* C18: in every extractor an assistant record whose fragments yield text or
\* tool calls adds exactly one entry: A: and the first line of the text (bare
\* A: when there are only calls), the further text lines indented, then one
\* indented [name] args line per tool-call fragment in fragment order;
\* thinking fragments add nothing; and every tool-call fragment with a
\* non-empty identifier is in the pending-call table after the step.
C18_OneCompositeEntry ==
    [][LET rec == consumed'[Len(consumed')]
       IN (/\ Processes
           /\ AssistantRecord(extractor, rec)
           /\ rec.ckind = "list"
           /\ AssistantTexts(extractor, rec) \cup AssistantCalls(extractor, rec) # {})
              => /\ pc' = "loop"
                 /\ Len(output') = Len(output) + 1
                 /\ SubSeq(output', 1, Len(output)) = output
                 /\ Composite(extractor, rec, output'[Len(output')])
                 /\ Registered(extractor, rec, pending')]_vars

====
